---- MODULE Spec2Model ----
(***************************************************************************)
(* Model of the NGO scraper's orchestration code:                          *)
(*   - src/session_manager.py : SessionManager (sessions and checkpoints)  *)
(*   - scripts/run_scraper.py : run_scraping_session, main                 *)
(*   - scripts/scraper_menu.py: ScraperMenu.start_new_session,             *)
(*                              ScraperMenu.resume_session                 *)
(*   - src/robots_handler.py  : RobotsHandler                              *)
(*   - scripts/test_dataset_scraper.py : TestDatasetScraper.scrape_test_ngo*)
(* Each subsystem has its own specification (SessionSpec, RobotsSpec,      *)
(* CrawlSpec) over the shared variable list.                               *)
(***************************************************************************)
EXTENDS Integers, Sequences, FiniteSets, TLC

VARIABLES
    sessions,       \* sessions table: session_id -> row
    checkpoints,    \* checkpoints table: sequence of rows, in insertion order
    next_checkpoint_id, \* AUTOINCREMENT counter of checkpoints.checkpoint_id
    output_dirs,    \* session ids whose data/runs/<id> directory exists
    wallclock,      \* datetime.now(), in ticks
    run,            \* the run_scraper.py process
    menu,           \* the scraper_menu.py process
    statusWrites,   \* history: status writes of the current job, in order
    lastCall,       \* history: the last SessionManager call and how it ended
    created_ids,    \* history: session ids returned by create_session so far
    parsers,        \* RobotsHandler.parsers: domain -> rule set
    last_fetch,     \* RobotsHandler.last_fetch: domain -> time
    now,            \* time.time()
    entryKind,      \* history: outcome of the download behind the cached entry
    lastQuery,      \* history: the last RobotsHandler query and its answer
    queue,          \* URLManager: queued entries, in insertion order
    seen,           \* URLManager: normalized URLs ever accepted
    visited,        \* URLManager: normalized URLs marked visited
    loop,           \* scrape_test_ngo: position in the main loop
    fetchAttempts,  \* history: fetch attempts per normalized URL
    fetchLog,       \* history: URLs fetched while already marked visited
    offered,        \* history: normalized URLs add_url was called with
    lastOp,         \* history: the last add_url or get_next_url call
    lastFetch,      \* history: the last _fetch_url call of the run
    urlCall,        \* history: the last call of a URL function and its value
    pool,           \* _run_parallel_test_scraping: position and processes
    seq             \* scrape_test_dataset: organizations scraped so far

sessionVars == <<sessions, checkpoints, next_checkpoint_id, output_dirs,
                 wallclock, run, menu, statusWrites, lastCall, created_ids>>
robotsVars  == <<parsers, last_fetch, now, entryKind, lastQuery>>
crawlVars   == <<queue, seen, visited, loop, fetchAttempts, fetchLog,
                 offered, lastOp, lastFetch>>
urlVars     == <<urlCall>>
poolVars    == <<pool>>
seqVars     == <<seq>>
vars == <<sessionVars, robotsVars, crawlVars, urlVars, poolVars, seqVars>>

(***************************************************************************)
(* Bounds                                                                  *)
(***************************************************************************)
MaxClock       == 2   \* last tick of datetime.now()
MaxSessions    == 2   \* rows in the sessions table
MaxRunSessions == 1   \* rows in the sessions table while processes run
MaxCheckpoints == 2   \* rows ever inserted into the checkpoints table
MaxStat        == 1   \* largest counter value a crawl reports

TicksPerSecond == 2   \* resolution of wallclock: ticks per clock second

(***************************************************************************)
(* SessionStatus (session_manager.py:19-24)                                *)
(***************************************************************************)
IN_PROGRESS == "in_progress"
COMPLETED   == "completed"
FAILED      == "failed"
INTERRUPTED == "interrupted"
SessionStatus == {IN_PROGRESS, COMPLETED, FAILED, INTERRUPTED}

None == "None"

(***************************************************************************)
(* Text values.  A string the code compares or sorts is a sequence of      *)
(* character codes; the order is SQLite's BINARY collation on TEXT.        *)
(***************************************************************************)
Digit(d) == 48 + d
Dot == Digit(0) - 2

RECURSIVE TextLess(_, _)
TextLess(a, b) ==
    IF a = <<>> THEN b # <<>>
    ELSE IF b = <<>> THEN FALSE
    ELSE IF Head(a) # Head(b) THEN Head(a) < Head(b)
    ELSE TextLess(Tail(a), Tail(b))

TextLeq(a, b) == a = b \/ TextLess(a, b)

\* datetime.isoformat(): seconds in fixed width, the fraction only when it
\* is not zero
isoformat(t) ==
    LET sec  == t \div TicksPerSecond
        frac == t % TicksPerSecond
    IN  <<Digit(sec \div 10), Digit(sec % 10)>> \o
        (IF frac = 0 THEN <<>> ELSE <<Dot, Digit(frac)>>)

\* datetime.fromisoformat: the time a text stands for
fromisoformat(text) == CHOOSE t \in 0..MaxClock : isoformat(t) = text

\* strftime("%Y%m%d_%H%M%S"): whole seconds
strftime(t) == t \div TicksPerSecond

(***************************************************************************)
(* Organizations and session ids (create_session)                          *)
(***************************************************************************)
Organizations == {None, "a b", "a_b"}
\* the organizations the run script and the menu are started for
RunOrganizations == {None, "a b"}

\* organization.replace(" ", "_").replace("/", "-")
org_clean(org) == IF org = "a b" THEN "a_b" ELSE org

SessionIdOf(t, org) ==
    IF org # None THEN <<strftime(t), org_clean(org)>>
    ELSE <<strftime(t), "all_orgs">>

SessionIds == {SessionIdOf(t, org) : t \in 0..MaxClock, org \in Organizations}

\* absent values: a NULL text column, no session id, no stats dictionary
NULL      == << >>
NoSession == << >>
NoStats   == << >>

\* what scrape_from_config returns, as far as run_scraping_session reads it
\* (MaxStat requests, each of them successful or failed)
CrawlStats ==
    {[successful_requests |-> n, failed_requests |-> MaxStat - n] :
        n \in 0..MaxStat}

(***************************************************************************)
(* SessionManager                                                          *)
(***************************************************************************)
\* output_dir = Path("data") / "runs" / session_id
output_dir_of(sid) == <<"data", "runs", sid>>

\* INSERT INTO sessions ... (create_session); the row that is inserted
\* the notes argument of create_session, as the caller wrote it
CreationNotes == "notes given to create_session"

NewSessionRow(t, org) ==
    [ organization        |-> org,
      notes               |-> CreationNotes,
      output_dir          |-> output_dir_of(SessionIdOf(t, org)),
      start_time          |-> isoformat(t),
      end_time            |-> NULL,
      status              |-> IN_PROGRESS,
      total_pages_scraped |-> 0,
      total_pages_skipped |-> 0,
      total_errors        |-> 0,
      updated_at          |-> isoformat(t) ]

Extend(f, k, v) == [x \in DOMAIN f \cup {k} |-> IF x = k THEN v ELSE f[x]]
Remove(f, k) == [x \in DOMAIN f \ {k} |-> f[x]]

\* create_session as a relation: the tables after the call; the primary key
\* rejects an id that is already there (the call raises, nothing is inserted)
CreateRaises(t, org) == SessionIdOf(t, org) \in DOMAIN sessions

SessionsAfterCreate(t, org) ==
    IF CreateRaises(t, org) THEN sessions
    ELSE Extend(sessions, SessionIdOf(t, org), NewSessionRow(t, org))

DirsAfterCreate(t, org) == output_dirs \cup {SessionIdOf(t, org)}

\* the ids create_session has returned, after one more call
CreatedAfterCreate(t, org) ==
    IF CreateRaises(t, org) THEN created_ids
    ELSE created_ids \cup {SessionIdOf(t, org)}

\* get_session: SELECT * FROM sessions WHERE session_id = ?; fetchone() as a
\* sequence of no row (None) or one row
get_session(tbl, sid) == IF sid \in DOMAIN tbl THEN <<tbl[sid]>> ELSE << >>

\* variant of UpdatedRow: end_time is stamped for every status
UpdatedRowAlwaysEnds(row, status, stats, t) ==
    [row EXCEPT !.status = status, !.updated_at = isoformat(t),
                !.end_time = isoformat(t)]

\* variant of UpdatedRow: the passed counters are added to the stored ones
UpdatedRowAdditive(row, status, stats, t) ==
    LET r1 == [row EXCEPT !.status = status, !.updated_at = isoformat(t)]
        r2 == IF status \in {COMPLETED, FAILED}
              THEN [r1 EXCEPT !.end_time = isoformat(t)] ELSE r1
        r3 == IF DOMAIN stats # {} /\ "total_pages_scraped" \in DOMAIN stats
              THEN [r2 EXCEPT !.total_pages_scraped =
                                  @ + stats.total_pages_scraped]
              ELSE r2
        r4 == IF DOMAIN stats # {} /\ "total_pages_skipped" \in DOMAIN stats
              THEN [r3 EXCEPT !.total_pages_skipped =
                                  @ + stats.total_pages_skipped]
              ELSE r3
        r5 == IF DOMAIN stats # {} /\ "total_errors" \in DOMAIN stats
              THEN [r4 EXCEPT !.total_errors = @ + stats.total_errors]
              ELSE r4
    IN  r5

\* update_session_status: UPDATE sessions SET ... WHERE session_id = ?
UpdatedRow(row, status, stats, t) ==
    LET r1 == [row EXCEPT !.status = status, !.updated_at = isoformat(t)]
        r2 == IF status \in {COMPLETED, FAILED}
              THEN [r1 EXCEPT !.end_time = isoformat(t)] ELSE r1
        r3 == IF DOMAIN stats # {} /\ "total_pages_scraped" \in DOMAIN stats
              THEN [r2 EXCEPT !.total_pages_scraped = stats.total_pages_scraped]
              ELSE r2
        r4 == IF DOMAIN stats # {} /\ "total_pages_skipped" \in DOMAIN stats
              THEN [r3 EXCEPT !.total_pages_skipped = stats.total_pages_skipped]
              ELSE r3
        r5 == IF DOMAIN stats # {} /\ "total_errors" \in DOMAIN stats
              THEN [r4 EXCEPT !.total_errors = stats.total_errors]
              ELSE r4
    IN  r5

update_session_status(tbl, sid, status, stats, t) ==
    IF sid \in DOMAIN tbl
    THEN [tbl EXCEPT ![sid] = UpdatedRow(tbl[sid], status, stats, t)]
    ELSE tbl

\* save_checkpoint: INSERT INTO checkpoints; the row that is inserted
NewCheckpointRow(sid, pages_scraped, queue_size, t) ==
    [ checkpoint_id |-> next_checkpoint_id,
      session_id    |-> sid,
      timestamp     |-> isoformat(t),
      pages_scraped |-> pages_scraped,
      queue_size    |-> queue_size ]

\* rows of the checkpoints table that belong to a session (positions)
CheckpointsOf(sid) ==
    {i \in 1..Len(checkpoints) : checkpoints[i].session_id = sid}

\* variant of get_latest_checkpoint: ORDER BY timestamp ASC
get_oldest_checkpoint(sid) ==
    {i \in CheckpointsOf(sid) :
        \A j \in CheckpointsOf(sid) :
            TextLeq(checkpoints[i].timestamp, checkpoints[j].timestamp)}

\* get_latest_checkpoint: SELECT ... WHERE session_id = ? ORDER BY timestamp
\* DESC LIMIT 1.  The rows the query may return (rows with equal timestamps
\* come in an order SQL does not fix); the empty set stands for None.
get_latest_checkpoint(sid) ==
    {i \in CheckpointsOf(sid) :
        \A j \in CheckpointsOf(sid) :
            TextLeq(checkpoints[j].timestamp, checkpoints[i].timestamp)}

\* all orderings of a finite set
Perms(S) ==
    {p \in [1..Cardinality(S) -> S] :
        \A i, j \in 1..Cardinality(S) : i # j => p[i] # p[j]}

Take(p, n) == IF Len(p) <= n THEN p ELSE SubSeq(p, 1, n)

\* list_sessions: SELECT * FROM sessions WHERE ... ORDER BY start_time DESC
\* LIMIT ?.  The set of lists the query may return, as lists of session ids.
list_sessions(organization, status, limit) ==
    LET match == {sid \in DOMAIN sessions :
                    /\ organization # None =>
                           sessions[sid].organization = organization
                    /\ status # None => sessions[sid].status = status}
    IN  {Take(p, limit) : p \in
            {q \in Perms(match) :
                \A i \in 1..(Len(q) - 1) :
                    TextLeq(sessions[q[i + 1]].start_time,
                            sessions[q[i]].start_time)}}

ListLimit == 50

\* get_resumable_sessions
get_resumable_sessions ==
    {a \o b : a \in list_sessions(None, IN_PROGRESS, ListLimit),
              b \in list_sessions(None, INTERRUPTED, ListLimit)}

(***************************************************************************)
(* Processes: run_scraper.py (run) and scraper_menu.py (menu)              *)
(*   run.pc : idle      no run_scraper.py process                          *)
(*            start     before run_scraping_session line 48                *)
(*            crawl     inside the try block, scrape_from_config running   *)
(*            finalize  the crawl has ended, the status write is next      *)
(*            done      the process has exited with run.ret                *)
(*            killed    the process was killed by subprocess.run           *)
(*   menu.pc: idle      at the main menu                                   *)
(*            waiting   inside subprocess.run                              *)
(*            interrupted  KeyboardInterrupt raised inside subprocess.run  *)
(*            returned  at "Press ENTER to continue"                       *)
(***************************************************************************)
RETURNED          == "returned"
KeyboardInterrupt == "KeyboardInterrupt"
Exception         == "Exception"
CrawlOutcomes     == {RETURNED, KeyboardInterrupt, Exception}

NoCrawlStats == [successful_requests |-> 0, failed_requests |-> 0]

IdleRun ==
    [ pc |-> "idle", session_id |-> NoSession, organization |-> None,
      resume |-> FALSE, parent |-> "shell", outcome |-> None,
      stats |-> NoCrawlStats, ret |-> 0 ]

IdleMenu == [ pc |-> "idle", session_id |-> NoSession, sigint |-> FALSE ]

StatusWrite(by, sid, status) == [by |-> by, session_id |-> sid, status |-> status]

\* record of a SessionManager call: did the backing store refuse the write
\* (failed), did the call end with an exception (raised)
Call(op, failed, raised) == [op |-> op, failed |-> failed, raised |-> raised]

SessionInit ==
    /\ sessions = << >>
    /\ checkpoints = << >>
    /\ next_checkpoint_id = 1
    /\ output_dirs = {}
    /\ wallclock = 0
    /\ run = IdleRun
    /\ menu = IdleMenu
    /\ statusWrites = << >>
    /\ lastCall = Call("none", FALSE, FALSE)
    /\ created_ids = {}

\* datetime.now() advances
Tick ==
    /\ wallclock < MaxClock
    /\ wallclock' = wallclock + 1
    /\ UNCHANGED <<sessions, checkpoints, next_checkpoint_id, output_dirs,
                   run, menu, statusWrites, lastCall>>
    /\ UNCHANGED <<created_ids, robotsVars, crawlVars, urlVars, poolVars, seqVars>>

\* run_scraper.py main(): argument handling up to the call of
\* run_scraping_session, for a process started from the shell
MainLaunch(organization, session_id, resume) ==
    /\ run.pc = "idle"
    /\ menu.pc = "idle"
    /\ statusWrites' = << >>
    /\ IF resume /\ session_id = NoSession
       THEN \E listed \in get_resumable_sessions :
              LET resumable ==
                    IF organization # None
                    THEN SelectSeq(listed,
                           LAMBDA s : sessions[s].organization = organization)
                    ELSE listed
              IN  IF resumable = << >>
                  THEN run' = [IdleRun EXCEPT !.pc = "done", !.ret = 1,
                                              !.organization = organization,
                                              !.resume = resume]
                  ELSE run' = [IdleRun EXCEPT !.pc = "start",
                                              !.session_id = resumable[1],
                                              !.organization = organization,
                                              !.resume = resume]
       ELSE run' = [IdleRun EXCEPT !.pc = "start",
                                   !.session_id = session_id,
                                   !.organization = organization,
                                   !.resume = resume]
    /\ UNCHANGED <<sessions, checkpoints, next_checkpoint_id, output_dirs,
                   wallclock, menu, lastCall>>
    /\ UNCHANGED <<created_ids, robotsVars, crawlVars, urlVars, poolVars, seqVars>>

\* run_scraping_session lines 48-82: use the given session or create one
RunBegin ==
    /\ run.pc = "start"
    /\ IF run.session_id # NoSession
       THEN /\ IF run.session_id \notin DOMAIN sessions
               THEN \* sys.exit(1)
                    /\ run' = [run EXCEPT !.pc = "done", !.ret = 1]
                    /\ UNCHANGED <<sessions, statusWrites, lastCall>>
               ELSE /\ run' = [run EXCEPT !.pc = "crawl"]
                    /\ IF run.resume
                       THEN /\ sessions' = update_session_status(sessions,
                                   run.session_id, IN_PROGRESS, NoStats,
                                   wallclock)
                            /\ statusWrites' = Append(statusWrites,
                                   StatusWrite("run", run.session_id,
                                               IN_PROGRESS))
                            /\ lastCall' = Call("update_session_status", FALSE, FALSE)
                       ELSE UNCHANGED <<sessions, statusWrites, lastCall>>
            /\ UNCHANGED <<output_dirs, created_ids>>
       ELSE /\ sessions' = SessionsAfterCreate(wallclock, run.organization)
            /\ output_dirs' = DirsAfterCreate(wallclock, run.organization)
            /\ created_ids' = CreatedAfterCreate(wallclock, run.organization)
            /\ lastCall' = Call("create_session",
                                CreateRaises(wallclock, run.organization),
                                CreateRaises(wallclock, run.organization))
            /\ IF CreateRaises(wallclock, run.organization)
               THEN \* the exception leaves run_scraping_session
                    run' = [run EXCEPT !.pc = "done", !.ret = 1]
               ELSE run' = [run EXCEPT !.pc = "crawl",
                       !.session_id = SessionIdOf(wallclock, run.organization)]
            /\ UNCHANGED statusWrites
    /\ Cardinality(DOMAIN sessions') <= MaxRunSessions
    /\ UNCHANGED <<checkpoints, next_checkpoint_id, wallclock, menu>>
    /\ UNCHANGED <<robotsVars, crawlVars, urlVars, poolVars, seqVars>>

\* run_scraping_session lines 85-108: the scraper is built and the crawl
\* runs until it returns its stats or raises.  A KeyboardInterrupt comes
\* from a signal; with a menu as parent the signal may reach the whole
\* process group (group) or only the child.
RunCrawl(outcome, stats, group) ==
    /\ run.pc = "crawl"
    /\ outcome \in CrawlOutcomes
    /\ stats \in CrawlStats
    /\ outcome # RETURNED => stats.successful_requests = 0
    /\ group => (outcome = KeyboardInterrupt /\ run.parent = "menu"
                 /\ menu.pc = "waiting")
    /\ run' = [run EXCEPT !.pc = "finalize", !.outcome = outcome,
                          !.stats = IF outcome = RETURNED THEN stats
                                    ELSE NoCrawlStats]
    /\ menu' = IF group THEN [menu EXCEPT !.pc = "interrupted", !.sigint = TRUE]
               ELSE menu
    /\ UNCHANGED <<sessions, checkpoints, next_checkpoint_id, output_dirs,
                   wallclock, statusWrites, lastCall>>
    /\ UNCHANGED <<created_ids, robotsVars, crawlVars, urlVars, poolVars, seqVars>>

\* variant of FinalStatus: the KeyboardInterrupt handler is missing and the
\* interrupt ends in the general handler
FinalStatusNoInterruptHandler(outcome) ==
    CASE outcome = RETURNED -> COMPLETED
      [] OTHER              -> FAILED

\* the status and return value run_scraping_session ends with
\* (lines 110-126, 128-134, 136-142)
FinalStatus(outcome) ==
    CASE outcome = RETURNED          -> COMPLETED
      [] outcome = KeyboardInterrupt -> INTERRUPTED
      [] OTHER                       -> FAILED

FinalStats(outcome, stats) ==
    IF outcome = RETURNED
    THEN [ total_pages_scraped |-> stats.successful_requests,
           total_errors        |-> stats.failed_requests ]
    ELSE NoStats

ReturnValue(outcome) == IF outcome = RETURNED THEN 0 ELSE 1

RunFinalize ==
    /\ run.pc = "finalize"
    /\ sessions' = update_session_status(sessions, run.session_id,
                       FinalStatus(run.outcome),
                       FinalStats(run.outcome, run.stats), wallclock)
    /\ statusWrites' = Append(statusWrites,
           StatusWrite("run", run.session_id, FinalStatus(run.outcome)))
    /\ lastCall' = Call("update_session_status", FALSE, FALSE)
    /\ run' = [run EXCEPT !.pc = "done", !.ret = ReturnValue(run.outcome)]
    /\ UNCHANGED <<checkpoints, next_checkpoint_id, output_dirs, wallclock,
                   menu>>
    /\ UNCHANGED <<created_ids, robotsVars, crawlVars, urlVars, poolVars, seqVars>>

\* the shell collects the exit code of a run it started
ShellReap ==
    /\ run.pc = "done"
    /\ run.parent = "shell"
    /\ run' = IdleRun
    /\ UNCHANGED <<sessions, checkpoints, next_checkpoint_id, output_dirs,
                   wallclock, menu, statusWrites, lastCall>>
    /\ UNCHANGED <<created_ids, robotsVars, crawlVars, urlVars, poolVars, seqVars>>

\* ScraperMenu.start_new_session lines 127-150: create the session and start
\* run_scraper.py --session-id <id> [--organization <org>] as a child
MenuStartNew(org) ==
    /\ menu.pc = "idle"
    /\ run.pc = "idle"
    /\ sessions' = SessionsAfterCreate(wallclock, org)
    /\ output_dirs' = DirsAfterCreate(wallclock, org)
    /\ created_ids' = CreatedAfterCreate(wallclock, org)
    /\ lastCall' = Call("create_session", CreateRaises(wallclock, org),
                        CreateRaises(wallclock, org))
    /\ Cardinality(DOMAIN sessions') <= MaxRunSessions
    /\ statusWrites' = << >>
    /\ IF CreateRaises(wallclock, org)
       THEN UNCHANGED <<menu, run>>
       ELSE /\ menu' = [IdleMenu EXCEPT !.pc = "waiting",
                            !.session_id = SessionIdOf(wallclock, org)]
            /\ run' = [IdleRun EXCEPT !.pc = "start",
                            !.session_id = SessionIdOf(wallclock, org),
                            !.organization = org,
                            !.resume = FALSE,
                            !.parent = "menu"]
    /\ UNCHANGED <<checkpoints, next_checkpoint_id, wallclock>>
    /\ UNCHANGED <<robotsVars, crawlVars, urlVars, poolVars, seqVars>>

\* ScraperMenu.resume_session lines 184-235: pick one of the resumable
\* sessions and start run_scraper.py --resume --session-id <id> as a child
MenuResume(choice) ==
    /\ menu.pc = "idle"
    /\ run.pc = "idle"
    /\ \E resumable \in get_resumable_sessions :
          /\ choice \in 1..Len(resumable)
          /\ menu' = [IdleMenu EXCEPT !.pc = "waiting",
                          !.session_id = resumable[choice]]
          /\ run' = [IdleRun EXCEPT !.pc = "start",
                          !.session_id = resumable[choice],
                          !.resume = TRUE,
                          !.parent = "menu"]
    /\ statusWrites' = << >>
    /\ UNCHANGED <<sessions, checkpoints, next_checkpoint_id, output_dirs,
                   wallclock, lastCall>>
    /\ UNCHANGED <<created_ids, robotsVars, crawlVars, urlVars, poolVars, seqVars>>

\* the status the menu writes for a child's return code
\* (start_new_session lines 151-162, resume_session lines 236-247)
StatusForReturnCode(returncode) ==
    IF returncode = 0 THEN COMPLETED ELSE FAILED

\* subprocess.run returns: the child has exited
MenuChildExit ==
    /\ menu.pc = "waiting"
    /\ run.pc = "done"
    /\ run.parent = "menu"
    /\ sessions' = update_session_status(sessions, menu.session_id,
                       StatusForReturnCode(run.ret), NoStats, wallclock)
    /\ statusWrites' = Append(statusWrites,
           StatusWrite("menu", menu.session_id, StatusForReturnCode(run.ret)))
    /\ lastCall' = Call("update_session_status", FALSE, FALSE)
    /\ menu' = [menu EXCEPT !.pc = "returned"]
    /\ UNCHANGED <<checkpoints, next_checkpoint_id, output_dirs, wallclock,
                   run>>
    /\ UNCHANGED <<created_ids, robotsVars, crawlVars, urlVars, poolVars, seqVars>>

\* a signal that reaches the menu process only, while it waits for the child
MenuSigint ==
    /\ menu.pc = "waiting"
    /\ menu' = [menu EXCEPT !.pc = "interrupted", !.sigint = TRUE]
    /\ UNCHANGED <<sessions, checkpoints, next_checkpoint_id, output_dirs,
                   wallclock, run, statusWrites, lastCall>>
    /\ UNCHANGED <<created_ids, robotsVars, crawlVars, urlVars, poolVars, seqVars>>

\* KeyboardInterrupt inside subprocess.run: a child that has not exited is
\* killed, then the handler writes INTERRUPTED
\* (start_new_session lines 163-168, resume_session lines 248-253)
MenuKeyboardInterrupt ==
    /\ menu.pc = "interrupted"
    /\ run' = IF run.pc = "done" THEN run ELSE [run EXCEPT !.pc = "killed"]
    /\ sessions' = update_session_status(sessions, menu.session_id,
                       INTERRUPTED, NoStats, wallclock)
    /\ statusWrites' = Append(statusWrites,
           StatusWrite("menu", menu.session_id, INTERRUPTED))
    /\ lastCall' = Call("update_session_status", FALSE, FALSE)
    /\ menu' = [menu EXCEPT !.pc = "returned"]
    /\ UNCHANGED <<checkpoints, next_checkpoint_id, output_dirs, wallclock>>
    /\ UNCHANGED <<created_ids, robotsVars, crawlVars, urlVars, poolVars, seqVars>>

\* "Press ENTER to continue": back to the main menu
MenuContinue ==
    /\ menu.pc = "returned"
    /\ menu' = IdleMenu
    /\ run' = IdleRun
    /\ UNCHANGED <<sessions, checkpoints, next_checkpoint_id, output_dirs,
                   wallclock, statusWrites, lastCall>>
    /\ UNCHANGED <<created_ids, robotsVars, crawlVars, urlVars, poolVars, seqVars>>

\* save_checkpoint lines 285-304: the body is a "with sqlite3.connect(...)"
\* block without a try/except, so an error of the write leaves the method
save_checkpoint_raises(write_fails) == write_fails

\* SessionManager.save_checkpoint.  write_fails: the INSERT or the commit
\* raises sqlite3.Error; the connection's context manager rolls back and the
\* exception leaves save_checkpoint (there is no handler in it).
SaveCheckpoint(sid, pages_scraped, queue_size, write_fails) ==
    /\ next_checkpoint_id <= MaxCheckpoints
    /\ IF write_fails
       THEN /\ lastCall' = Call("save_checkpoint", TRUE,
                                 save_checkpoint_raises(TRUE))
            /\ UNCHANGED <<checkpoints, next_checkpoint_id>>
       ELSE /\ checkpoints' = Append(checkpoints,
                NewCheckpointRow(sid, pages_scraped, queue_size, wallclock))
            /\ next_checkpoint_id' = next_checkpoint_id + 1
            /\ lastCall' = Call("save_checkpoint", FALSE,
                                 save_checkpoint_raises(FALSE))
    /\ UNCHANGED <<sessions, output_dirs, wallclock, run, menu, statusWrites>>
    /\ UNCHANGED <<created_ids, robotsVars, crawlVars, urlVars, poolVars, seqVars>>

\* record of a delete_session call: its delete_files argument and whether
\* get_session found the row (lines 353-356)
DeleteCall(delete_files, found) ==
    [ op |-> "delete_session", failed |-> FALSE, raised |-> FALSE,
      delete_files |-> delete_files, found |-> found ]

\* variant of CheckpointsAfterDelete: DELETE FROM checkpoints without WHERE
CheckpointsAfterDeleteAll(cps, sid) == << >>

\* delete_session lines 361-364: DELETE FROM checkpoints WHERE session_id = ?
CheckpointsAfterDelete(cps, sid) ==
    SelectSeq(cps, LAMBDA c : c.session_id # sid)

\* variant of DirsAfterDelete: the directory is removed without looking the
\* session up first
DirsAfterDeleteNoLookup(dirs, found, sid, delete_files) ==
    IF delete_files THEN dirs \ {sid} ELSE dirs

\* delete_session lines 353-356 and 374-380: the output directory of a
\* session that was found is removed when delete_files is set
DirsAfterDelete(dirs, found, sid, delete_files) ==
    IF found /\ delete_files THEN dirs \ {sid} ELSE dirs

\* delete_session as a function of the store: the tables and directories
\* after the call, and whether the call raised
delete_session(tbl, cps, dirs, sid, delete_files) ==
    LET found == get_session(tbl, sid) # << >> IN
    [ found       |-> found,
      raised      |-> FALSE,
      sessions    |-> IF found THEN Remove(tbl, sid) ELSE tbl,
      checkpoints |-> IF found THEN CheckpointsAfterDelete(cps, sid) ELSE cps,
      output_dirs |-> DirsAfterDelete(dirs, found, sid, delete_files) ]

\* SessionManager.delete_session
DeleteSession(sid, delete_files) ==
    LET after == delete_session(sessions, checkpoints, output_dirs, sid,
                                delete_files) IN
    /\ lastCall' = DeleteCall(delete_files, after.found)
    /\ sessions' = after.sessions
    /\ checkpoints' = after.checkpoints
    /\ output_dirs' = after.output_dirs
    /\ UNCHANGED <<next_checkpoint_id, wallclock, run, menu, statusWrites>>
    /\ UNCHANGED <<created_ids, robotsVars, crawlVars, urlVars, poolVars, seqVars>>

\* SessionManager.create_session
CreateSession(org) ==
    /\ sessions' = SessionsAfterCreate(wallclock, org)
    /\ output_dirs' = DirsAfterCreate(wallclock, org)
    /\ created_ids' = CreatedAfterCreate(wallclock, org)
    /\ lastCall' = Call("create_session", CreateRaises(wallclock, org),
                        CreateRaises(wallclock, org))
    /\ Cardinality(DOMAIN sessions') <= MaxSessions
    /\ UNCHANGED <<checkpoints, next_checkpoint_id, wallclock, run, menu,
                   statusWrites>>
    /\ UNCHANGED <<robotsVars, crawlVars, urlVars, poolVars, seqVars>>

\* the stats dictionaries passed to update_session_status
StatsArgs ==
    { NoStats,
      [total_pages_scraped |-> MaxStat, total_errors |-> MaxStat] }

\* the stats dictionaries of the calls that only update counters: running
\* totals that name some of the three counters
UpdateStatsArgs ==
    StatsArgs \cup { [total_pages_skipped |-> MaxStat],
                     [total_pages_scraped |-> 0] }

\* the organizations sessions are created for before they are updated
UpdateOrganizations == {None}

\* SessionManager.update_session_status
UpdateSessionStatus(sid, status, stats) ==
    /\ sessions' = update_session_status(sessions, sid, status, stats,
                                         wallclock)
    /\ lastCall' = Call("update_session_status", FALSE, FALSE)
    /\ UNCHANGED <<checkpoints, next_checkpoint_id, output_dirs, wallclock,
                   run, menu, statusWrites>>
    /\ UNCHANGED <<created_ids, robotsVars, crawlVars, urlVars, poolVars, seqVars>>

\* calls of the SessionManager API on the sessions table, in any order
StoreNext ==
    \/ Tick
    \/ \E org \in Organizations : CreateSession(org)
    \/ \E sid \in SessionIds, status \in SessionStatus, stats \in StatsArgs :
          UpdateSessionStatus(sid, status, stats)

\* update_session_status calls with every kind of stats dictionary, on
\* sessions created one after the other
UpdateNext ==
    \/ Tick
    \/ \E org \in UpdateOrganizations : CreateSession(org)
    \/ \E sid \in SessionIds, status \in SessionStatus,
          stats \in UpdateStatsArgs :
          UpdateSessionStatus(sid, status, stats)

\* calls of the SessionManager API that touch the checkpoints table
CheckpointNext ==
    \/ Tick
    \/ \E org \in Organizations : CreateSession(org)
    \/ \E sid \in SessionIds, pages \in 0..MaxStat, write_fails \in BOOLEAN :
          SaveCheckpoint(sid, pages, MaxStat - pages, write_fails)
    \/ \E sid \in SessionIds, delete_files \in BOOLEAN :
          DeleteSession(sid, delete_files)

\* the run script and the menu
SessionNext ==
    \/ Tick
    \/ \E org \in RunOrganizations, sid \in SessionIds \cup {NoSession},
          resume \in BOOLEAN : MainLaunch(org, sid, resume)
    \/ RunBegin
    \/ \E outcome \in CrawlOutcomes, stats \in CrawlStats, group \in BOOLEAN :
          RunCrawl(outcome, stats, group)
    \/ RunFinalize
    \/ ShellReap
    \/ \E org \in RunOrganizations : MenuStartNew(org)
    \/ \E choice \in 1..MaxRunSessions : MenuResume(choice)
    \/ MenuChildExit
    \/ MenuSigint
    \/ MenuKeyboardInterrupt
    \/ MenuContinue

(***************************************************************************)
(* RobotsHandler (src/robots_handler.py)                                   *)
(***************************************************************************)
cache_duration == 3600

StartTime  == 5000          \* time.time() when the handler is constructed
MaxNow     == 8602          \* last value of time.time()
ClockSteps == {1200, 1201}  \* amounts by which time.time() advances

Domains == {"https://a.org", "https://b.org"}
\* a path is the sequence of its segments: << >> is "/"
Paths == {<< >>, <<"private", "x">>, <<"public">>}
RobotsUrls == Domains \X Paths

\* _get_domain: scheme and netloc of the URL
get_domain(url) == url[1]
url_path(url) == url[2]

\* A parsed robots.txt, as far as the configured user agent is concerned:
\* the Disallow prefixes, Crawl-delay (0 when absent) and Request-rate
\* (NoRate when absent)
NoRate == << >>
EmptyParser == [disallow |-> {}, crawl_delay |-> 0, request_rate |-> NoRate]
RuleSets ==
    { EmptyParser,
      [disallow |-> {<<"private">>}, crawl_delay |-> 2, request_rate |-> <<1, 5>>],
      [disallow |-> {<< >>}, crawl_delay |-> 0, request_rate |-> NoRate] }

\* what requests.get(robots_url) ends with
Responses ==
    [kind : {"200"}, rules : RuleSets] \cup
    [kind : {"404", "500", "RequestException", "Exception"}, rules : {EmptyParser}]

IsPrefix(p, q) == Len(p) <= Len(q) /\ SubSeq(q, 1, Len(p)) = p

\* RobotFileParser.can_fetch for the configured user agent
parser_can_fetch(parser, url) ==
    ~ \E p \in parser.disallow : IsPrefix(p, url_path(url))

\* variant of fetch_robots_txt: an unexpected status blocks the whole site
fetch_robots_txt_conservative(response) ==
    IF response.kind = "200" THEN response.rules
    ELSE IF response.kind = "500"
    THEN [disallow |-> {<< >>}, crawl_delay |-> 0, request_rate |-> NoRate]
    ELSE EmptyParser

\* _fetch_robots_txt: the parser it returns for a response
fetch_robots_txt(response) ==
    IF response.kind = "200" THEN response.rules
    ELSE IF response.kind = "404" THEN EmptyParser
    ELSE IF response.kind = "500" THEN EmptyParser
    ELSE IF response.kind = "RequestException" THEN EmptyParser
    ELSE EmptyParser

\* variant of needs_fetch: the entry expires one second early
needs_fetch_early(domain) ==
    \/ domain \notin DOMAIN parsers
    \/ (now - (IF domain \in DOMAIN last_fetch THEN last_fetch[domain] ELSE 0))
          >= cache_duration

\* can_fetch lines 126-127: is the robots file (re-)fetched
needs_fetch(domain) ==
    \/ domain \notin DOMAIN parsers
    \/ (now - (IF domain \in DOMAIN last_fetch THEN last_fetch[domain] ELSE 0))
          > cache_duration

\* can_fetch lines 122-138: the cache after the refresh step
ParsersAfter(domain, response) ==
    IF needs_fetch(domain)
    THEN Extend(parsers, domain, fetch_robots_txt(response))
    ELSE parsers

LastFetchAfter(domain) ==
    IF needs_fetch(domain) THEN Extend(last_fetch, domain, now) ELSE last_fetch

KindAfter(domain, response) ==
    IF needs_fetch(domain)
    THEN [entryKind EXCEPT ![domain] = response.kind] ELSE entryKind

\* age of the cached entry of a domain, None when there is none
EntryAge(domain) ==
    IF domain \in DOMAIN parsers THEN <<now - last_fetch[domain]>> ELSE << >>

\* record of a query: what was cached when it was made (age_before), whether
\* the robots file was downloaded, the age of the rule set that answered
Query(op, url, result, age_before, fetched, age) ==
    [op |-> op, url |-> url, result |-> result, age_before |-> age_before,
     fetched |-> fetched, age |-> age, raised |-> FALSE]

\* no query has been made of this RobotsHandler
NoQuery == Query("none", <<None, << >>>>, <<"bool", FALSE>>, << >>, FALSE, 0)

RobotsInit ==
    /\ parsers = << >>
    /\ last_fetch = << >>
    /\ now = StartTime
    /\ entryKind = [d \in Domains |-> None]
    /\ lastQuery = NoQuery

\* time.time() advances
AdvanceClock(d) ==
    /\ d \in ClockSteps
    /\ now + d <= MaxNow
    /\ now' = now + d
    /\ UNCHANGED <<parsers, last_fetch, entryKind, lastQuery>>
    /\ UNCHANGED <<sessionVars, crawlVars, urlVars, poolVars, seqVars>>

\* RobotsHandler.can_fetch(url); response is what the server would answer
CanFetch(url, response) ==
    LET domain == get_domain(url) IN
    /\ parsers' = ParsersAfter(domain, response)
    /\ last_fetch' = LastFetchAfter(domain)
    /\ entryKind' = KindAfter(domain, response)
    /\ lastQuery' = Query("can_fetch", url,
                          <<"bool", parser_can_fetch(parsers'[domain], url)>>,
                          EntryAge(domain), needs_fetch(domain),
                          now - last_fetch'[domain])
    /\ UNCHANGED now
    /\ UNCHANGED <<sessionVars, crawlVars, urlVars, poolVars, seqVars>>

\* lines 164-165 of get_crawl_delay and 192-193 of get_request_rate:
\* "ensure we have the robots.txt loaded"
loads_robots(domain) == domain \notin DOMAIN parsers

\* RobotsHandler.get_crawl_delay(url)
GetCrawlDelay(url, response) ==
    LET domain == get_domain(url) IN
    /\ IF loads_robots(domain)
       THEN /\ parsers' = ParsersAfter(domain, response)
            /\ last_fetch' = LastFetchAfter(domain)
            /\ entryKind' = KindAfter(domain, response)
       ELSE UNCHANGED <<parsers, last_fetch, entryKind>>
    /\ lastQuery' = Query("get_crawl_delay", url,
                          <<"delay", parsers'[domain].crawl_delay>>,
                          EntryAge(domain), loads_robots(domain),
                          now - last_fetch'[domain])
    /\ UNCHANGED now
    /\ UNCHANGED <<sessionVars, crawlVars, urlVars, poolVars, seqVars>>

\* RobotsHandler.get_request_rate(url)
GetRequestRate(url, response) ==
    LET domain == get_domain(url) IN
    /\ IF loads_robots(domain)
       THEN /\ parsers' = ParsersAfter(domain, response)
            /\ last_fetch' = LastFetchAfter(domain)
            /\ entryKind' = KindAfter(domain, response)
       ELSE UNCHANGED <<parsers, last_fetch, entryKind>>
    /\ lastQuery' = Query("get_request_rate", url,
                          <<"rate", parsers'[domain].request_rate>>,
                          EntryAge(domain), loads_robots(domain),
                          now - last_fetch'[domain])
    /\ UNCHANGED now
    /\ UNCHANGED <<sessionVars, crawlVars, urlVars, poolVars, seqVars>>

\* RobotsHandler.clear_cache
ClearCache ==
    /\ parsers' = << >>
    /\ last_fetch' = << >>
    /\ entryKind' = [d \in Domains |-> None]
    /\ UNCHANGED <<now, lastQuery>>
    /\ UNCHANGED <<sessionVars, crawlVars, urlVars, poolVars, seqVars>>

\* the server's answers that make a difference to a query: all of them when
\* the query downloads the robots file, one (unused) otherwise
Answers(downloads) ==
    IF downloads THEN Responses ELSE {[kind |-> "404", rules |-> EmptyParser]}

RobotsNext ==
    \/ \E d \in ClockSteps : AdvanceClock(d)
    \/ \E url \in RobotsUrls :
          \E response \in Answers(needs_fetch(get_domain(url))) :
             CanFetch(url, response)
    \/ \E url \in RobotsUrls :
          \E response \in Answers(loads_robots(get_domain(url))) :
             GetCrawlDelay(url, response)
    \/ \E url \in RobotsUrls :
          \E response \in Answers(loads_robots(get_domain(url))) :
             GetRequestRate(url, response)
    \/ ClearCache

(***************************************************************************)
(* URLManager (src/url_manager.py) and the main loop of                    *)
(* TestDatasetScraper.scrape_test_ngo                                      *)
(***************************************************************************)
max_html_pages == 2   \* TestDatasetScraper.max_html_pages, scaled down
max_pdfs       == 1   \* TestDatasetScraper.max_pdfs, scaled down
QueueBuffer    == 0   \* "buffer for queue exploration", scaled down
max_depth      == 1   \* config['crawl']['max_depth']
MaxLinks       == 2   \* links the extractor returns for one page
MaxDocs        == 1   \* document links the extractor returns for one page
MaxSeeds       == 2   \* seed URLs of one organization
MaxFailures    == 2   \* processing failures raised in one run

\* max_pages of scrape_test_ngo line 298
max_pages == max_html_pages + max_pdfs + QueueBuffer

\* a URL: host, path segments, trailing slash
RawUrls ==
    { <<"example.org", << >>, FALSE>>,
      <<"example.org", <<"a">>, FALSE>>,
      <<"example.org", <<"a">>, TRUE>>,
      <<"example.org", <<"x">>, FALSE>>,
      <<"other.com", << >>, FALSE>> }

BaseDomain == "example.org"
NoUrl == <<None, << >>, FALSE>>

\* URLManager.normalize_url: strip one trailing slash from the path
normalize_url(url) == <<url[1], url[2], FALSE>>

NormalizedUrls == {normalize_url(u) : u \in RawUrls}

\* URLManager.is_visited
is_visited(url) == normalize_url(url) \in visited

\* variant of mark_visited: the URL is recorded as it was passed
mark_visited_as_passed(vs, url) == vs \cup {url}

\* URLManager.mark_visited: the visited set after the call
mark_visited(vs, url) == vs \cup {normalize_url(url)}

\* variant of add_accepts: only URLs that are still queued or are visited
\* count as seen
add_accepts_queued_only(q, sn, vs, url, depth) ==
    /\ \A i \in 1..Len(q) : q[i].url # normalize_url(url)
    /\ normalize_url(url) \notin vs
    /\ depth <= max_depth
    /\ Cardinality(sn) < max_pages

\* variant of add_accepts: no depth limit
add_accepts_any_depth(q, sn, vs, url, depth) ==
    /\ normalize_url(url) \notin sn
    /\ normalize_url(url) \notin vs
    /\ Cardinality(sn) < max_pages

\* variant of add_accepts: no page budget
add_accepts_any_count(q, sn, vs, url, depth) ==
    /\ normalize_url(url) \notin sn
    /\ normalize_url(url) \notin vs
    /\ depth <= max_depth

\* URLManager.add_url: is the URL accepted
add_accepts(q, sn, vs, url, depth) ==
    /\ normalize_url(url) \notin sn
    /\ normalize_url(url) \notin vs
    /\ depth <= max_depth
    /\ Cardinality(sn) < max_pages

Entry(url, depth, parent, priority) ==
    [depth |-> depth, url |-> normalize_url(url), parent_url |-> parent,
     priority |-> priority]

\* URLManager.add_url: the queue and the seen set after the call
QueueAfterAdd(q, sn, vs, url, depth, parent, priority) ==
    IF add_accepts(q, sn, vs, url, depth)
    THEN Append(q, Entry(url, depth, parent, priority)) ELSE q

SeenAfterAdd(q, sn, vs, url, depth) ==
    IF add_accepts(q, sn, vs, url, depth)
    THEN sn \cup {normalize_url(url)} ELSE sn

\* variant of NextIndex: one queue for all priorities, first in first out
NextIndexGlobalFifo(q) == IF q = << >> THEN 0 ELSE 1

\* URLManager.get_next_url: position of the entry that is popped, 0 if none
NextIndex(q) ==
    IF q = << >> THEN 0
    ELSE CHOOSE i \in 1..Len(q) :
           /\ \A j \in 1..Len(q) : q[i].priority <= q[j].priority
           /\ \A j \in 1..(i - 1) : q[j].priority # q[i].priority

\* variant of RemoveAt: the entry get_next_url returns stays queued
RemoveAtKeepsEntry(q, i) == q

RemoveAt(q, i) == SubSeq(q, 1, i - 1) \o SubSeq(q, i + 1, Len(q))

\* URLManager.should_exclude_url with config['url_exclusions'] = ["/x"]
should_exclude_url(url) == url[2] # << >> /\ url[2][1] = "x"

\* URLManager.get_url_priority with config['priority_patterns'] =
\* {high: ["/a"], medium: [], low: []}
get_url_priority(url) == IF url[2] # << >> /\ url[2][1] = "a" THEN 0 ELSE 3

\* ContentExtractor.extract_links tags a link by its host
link_type(url) == IF url[1] = BaseDomain THEN "internal" ELSE "external"

\* record of a frontier call.  add_url: the normalized URL, the depth and
\* priority passed, the value returned, and whether the normalized URL was
\* offered for the first time.  get_next_url: the entry returned (result is
\* FALSE when None was returned).
FrontierOp(op, url, depth, priority, result, first) ==
    [op |-> op, url |-> url, depth |-> depth, priority |-> priority,
     result |-> result, first |-> first]

NoOp == FrontierOp("none", NoUrl, 0, 0, FALSE, FALSE)

AddOp(q, sn, vs, off, url, depth, priority) ==
    FrontierOp("add", normalize_url(url), depth, priority,
               add_accepts(q, sn, vs, url, depth),
               normalize_url(url) \notin off)

\* mark_visited: first tells whether the normalized URL was not visited yet
MarkOp(vs, url) ==
    FrontierOp("mark", normalize_url(url), 0, 0, TRUE,
               normalize_url(url) \notin vs)

NextOp(q) ==
    IF NextIndex(q) = 0 THEN FrontierOp("next", NoUrl, 0, 0, FALSE, FALSE)
    ELSE FrontierOp("next", q[NextIndex(q)].url, q[NextIndex(q)].depth,
                    q[NextIndex(q)].priority, TRUE, FALSE)

\* offering a list of (url, depth, parent, priority) to add_url, one by one
RECURSIVE AddAll(_, _, _)
AddAll(state, vs, offers) ==
    IF offers = << >> THEN state
    ELSE LET o == Head(offers) IN
         AddAll([queue |-> QueueAfterAdd(state.queue, state.seen, vs,
                               o.url, o.depth, o.parent, o.priority),
                 seen  |-> SeenAfterAdd(state.queue, state.seen, vs,
                               o.url, o.depth),
                 offered |-> state.offered \cup {normalize_url(o.url)},
                 last  |-> AddOp(state.queue, state.seen, vs, state.offered,
                               o.url, o.depth, o.priority)],
                vs, Tail(offers))

Offer(url, depth, parent, priority) ==
    [url |-> url, depth |-> depth, parent |-> parent, priority |-> priority]

\* _process_html_page lines 190-219 with follow_external_links = False:
\* the links that are offered to add_url
LinkOffers(links, url, depth) ==
    LET internal_links == SelectSeq(links, LAMBDA l : link_type(l) = "internal")
        kept == SelectSeq(internal_links, LAMBDA l : ~ should_exclude_url(l))
    IN  [i \in 1..Len(kept) |->
            Offer(kept[i], depth + 1, url, get_url_priority(kept[i]))]

\* _process_html_page lines 223-238: the document links offered to add_url
DocOffers(docs, url, depth) ==
    [i \in 1..Len(docs) |-> Offer(docs[i], depth, url, 0)]

\* variant of VisitedAfterFetch: the failure branch does not mark the URL
VisitedAfterFetchSuccessOnly(vs, url, result) ==
    IF result # "failed" THEN vs \cup {normalize_url(url)}
    ELSE vs

\* scrape_test_ngo lines 339-364: mark_visited after the fetch, on the
\* success branch (line 343) and on the failure branch (line 364)
VisitedAfterFetch(vs, url, result) ==
    IF result # "failed" THEN vs \cup {normalize_url(url)}
    ELSE vs \cup {normalize_url(url)}

SeqsUpTo(S, n) == UNION {[1..k -> S] : k \in 0..n}

FetchResults == {"failed", "html", "document", "other"}

\* variant of _fetch_url: the request is made whatever can_fetch answers
_fetch_url_ignoring_robots(allowed, response) ==
    [requested |-> TRUE, result |-> response]

\* NGOScraper._fetch_url: can_fetch is consulted first; a disallowed URL is
\* not requested and nothing is returned ("failed"), an allowed URL is
\* requested and the outcome of the request is returned
_fetch_url(allowed, response) ==
    [requested |-> allowed,
     result |-> IF allowed THEN response ELSE "failed"]

\* saved: the store was called for the fetched content and reported it saved
Fetch(url, allowed, requested, result, saved) ==
    [url |-> url, allowed |-> allowed, requested |-> requested,
     result |-> result, saved |-> saved]

NoFetch == Fetch(NoUrl, FALSE, FALSE, "none", FALSE)

\* variant of html_limit_reached: _process_html_page without its first check
html_limit_ignored(count) == FALSE

\* _process_html_page lines 154-157: "Reached HTML page limit", return
html_limit_reached(count) == count >= max_html_pages

\* _process_document lines 254-257: "Reached PDF/document limit", return
pdf_limit_reached(count) == count >= max_pdfs

\* where the processing of one fetched URL raises: nowhere, in the store
\* call, in the extraction before any link is queued, or inside the try
\* block of the k-th link or document link
Failures == {"none", "save", "extract", "link1", "link2", "doc1"}

FailedIndex(fail, kind) ==
    IF kind = "link" /\ fail = "link1" THEN 1
    ELSE IF kind = "link" /\ fail = "link2" THEN 2
    ELSE IF kind = "doc" /\ fail = "doc1" THEN 1
    ELSE 0

\* _process_html_page lines 198-219 and 229-240: the items of a for loop
\* whose try block runs to its end.  A failure outside the two for loops
\* (except at line 242) leaves no item; the except at line 218 or 239 logs
\* the failed item and the for loop goes on.
Handled(items, fail, kind) ==
    IF fail \in {"save", "extract"} THEN << >>
    ELSE IF FailedIndex(fail, kind) = 0 THEN items
    ELSE RemoveAt(items, FailedIndex(fail, kind))

\* the error counters of the run after the handlers of _process_html_page
\* (lines 218-219, 239-240, 242-243) and _process_document (lines 267-268)
\* have run: they log and count nothing
ErrorsAfter(errors, fail) == errors

CrawlInit ==
    /\ queue = << >>
    /\ seen = {}
    /\ visited = {}
    /\ loop = [pc |-> "idle", html_count |-> 0, pdf_count |-> 0,
               errors |-> 0, raised |-> 0]
    /\ fetchAttempts = [u \in NormalizedUrls |-> 0]
    /\ fetchLog = {}
    /\ lastFetch = NoFetch
    /\ offered = {}
    /\ lastOp = NoOp

\* the components of a scraper that carry crawl state: the frontier and the
\* visited set of its URLManager, the cache of its RobotsHandler
Components(q, sn, vs, ps, lf) ==
    [queue |-> q, seen |-> sn, visited |-> vs, parsers |-> ps,
     last_fetch |-> lf]

\* variant of _initialize_for_ngo: the components of the previous
\* organization are kept
_initialize_for_ngo_keeping(old) == old

\* _initialize_for_ngo lines 131-132: a new RobotsHandler (empty parsers and
\* last_fetch) and a new URLManager (empty queue, nothing seen or visited)
\* replace the scraper's components
_initialize_for_ngo(old) == Components(<< >>, {}, {}, << >>, << >>)

\* the seeds as they are offered to add_url, lines 306-311
SeedOffers(seeds) == [i \in 1..Len(seeds) |-> Offer(seeds[i], 0, NoUrl, 0)]

\* scrape_test_ngo lines 288-312: counters reset, components created, seeds
\* queued
ScrapeTestNgoStart(seeds) ==
    /\ loop.pc = "idle"
    /\ seeds # << >>
    /\ LET new == _initialize_for_ngo(
                      Components(queue, seen, visited, parsers, last_fetch))
           st == AddAll([queue |-> new.queue, seen |-> new.seen,
                         offered |-> {}, last |-> NoOp], new.visited,
                        SeedOffers(seeds))
       IN  /\ visited' = new.visited
           /\ parsers' = new.parsers
           /\ last_fetch' = new.last_fetch
           /\ queue' = st.queue /\ seen' = st.seen
           /\ offered' = st.offered /\ lastOp' = st.last
    /\ entryKind' = [d \in Domains |->
                        IF d \in DOMAIN parsers' THEN entryKind[d] ELSE None]
    /\ lastQuery' = NoQuery
    /\ loop' = [pc |-> "loop", html_count |-> 0, pdf_count |-> 0,
                errors |-> 0, raised |-> 0]
    /\ fetchAttempts' = [u \in NormalizedUrls |-> 0]
    /\ fetchLog' = {}
    /\ lastFetch' = NoFetch
    /\ UNCHANGED now
    /\ UNCHANGED <<sessionVars, urlVars, poolVars>>

\* scrape_test_ngo is called for one organization
CrawlStart(seeds) ==
    /\ ScrapeTestNgoStart(seeds)
    /\ UNCHANGED seqVars

\* one iteration of the while loop, scrape_test_ngo lines 317-364.
\* allowed, response, saved, links, docs: what can_fetch, the request, the
\* store and the extractor answer for the popped URL
LoopIteration(allowed, response, saved, links, docs, fail) ==
    LET result == _fetch_url(allowed, response).result IN
    /\ loop.pc = "loop"
    /\ fail \in Failures
    /\ fail # "none" =>
          /\ loop.raised < MaxFailures
          /\ \/ result = "html" /\ ~ html_limit_reached(loop.html_count)
             \/ /\ result = "document" /\ fail = "save"
                /\ ~ pdf_limit_reached(loop.pdf_count)
          /\ fail = "save" => ~ saved
          /\ FailedIndex(fail, "link") > 0 =>
                /\ FailedIndex(fail, "link") <= Len(links)
                /\ link_type(links[FailedIndex(fail, "link")]) = "internal"
          /\ FailedIndex(fail, "doc") > 0 =>
                FailedIndex(fail, "doc") <= Len(docs)
    /\ response \in FetchResults
    /\ ~ allowed => response = "failed"
    /\ result # "html" => (links = << >> /\ docs = << >>)
    /\ result \in {"failed", "other"} => ~ saved
    /\ IF loop.html_count >= max_html_pages /\ loop.pdf_count >= max_pdfs
       THEN \* "Reached both HTML and PDF limits"
            /\ loop' = [loop EXCEPT !.pc = "done"]
            /\ UNCHANGED <<queue, seen, visited, fetchAttempts, fetchLog,
                           lastFetch,
                           offered, lastOp>>
       ELSE IF NextIndex(queue) = 0
       THEN \* "URL queue exhausted"
            /\ loop' = [loop EXCEPT !.pc = "done"]
            /\ lastOp' = NextOp(queue)
            /\ UNCHANGED <<queue, seen, visited, fetchAttempts, fetchLog,
                           lastFetch,
                           offered>>
       ELSE LET e == queue[NextIndex(queue)]
                popped == RemoveAt(queue, NextIndex(queue))
            IN  IF is_visited(e.url)
                THEN \* skip
                     /\ queue' = popped
                     /\ lastOp' = NextOp(queue)
                     /\ UNCHANGED <<seen, visited, loop, fetchAttempts,
                                    fetchLog, offered, lastFetch>>
                ELSE \* _fetch_url, then mark_visited on either branch
                     /\ fetchAttempts' =
                            [fetchAttempts EXCEPT ![e.url] = @ + 1]
                     /\ fetchLog' = IF normalize_url(e.url) \in visited
                                    THEN fetchLog \cup {e.url} ELSE fetchLog
                     /\ lastFetch' =
                            Fetch(e.url, allowed,
                                  _fetch_url(allowed, response).requested,
                                  result,
                                  /\ saved
                                  /\ \/ /\ result = "html"
                                        /\ ~ html_limit_reached(
                                                 loop.html_count)
                                     \/ /\ result = "document"
                                        /\ ~ pdf_limit_reached(
                                                 loop.pdf_count))
                     /\ visited' = VisitedAfterFetch(visited, e.url, result)
                     /\ IF /\ result = "html"
                           /\ ~ html_limit_reached(loop.html_count)
                        THEN LET st == AddAll([queue |-> popped, seen |-> seen,
                                          offered |-> offered,
                                          last |-> NextOp(queue)],
                                         VisitedAfterFetch(visited, e.url,
                                                           result),
                                         LinkOffers(Handled(links, fail,
                                                            "link"),
                                                    e.url, e.depth) \o
                                         DocOffers(Handled(docs, fail, "doc"),
                                                   e.url, e.depth))
                             IN  /\ queue' = st.queue
                                 /\ seen' = st.seen
                                 /\ offered' = st.offered
                                 /\ lastOp' = st.last
                                 /\ loop' = [loop EXCEPT
                                        !.html_count =
                                            IF saved THEN @ + 1 ELSE @,
                                        !.errors = ErrorsAfter(@, fail),
                                        !.raised =
                                            IF fail # "none" THEN @ + 1
                                            ELSE @]
                        ELSE IF /\ result = "document"
                                /\ ~ pdf_limit_reached(loop.pdf_count)
                        THEN /\ queue' = popped
                             /\ loop' = [loop EXCEPT
                                    !.pdf_count = IF saved THEN @ + 1 ELSE @,
                                    !.errors = ErrorsAfter(@, fail),
                                    !.raised =
                                        IF fail # "none" THEN @ + 1 ELSE @]
                             /\ lastOp' = NextOp(queue)
                             /\ UNCHANGED <<seen, offered>>
                        ELSE /\ queue' = popped
                             /\ lastOp' = NextOp(queue)
                             /\ UNCHANGED <<seen, loop, offered>>
    /\ UNCHANGED <<sessionVars, robotsVars, urlVars, poolVars, seqVars>>

\* scrape_test_ngo has returned; the next organization can be scraped
CrawlReturn ==
    /\ loop.pc = "done"
    /\ loop' = [loop EXCEPT !.pc = "idle"]
    /\ UNCHANGED <<queue, seen, visited, fetchAttempts, fetchLog, offered,
                   lastOp, lastFetch>>
    /\ UNCHANGED <<sessionVars, robotsVars, urlVars, poolVars, seqVars>>

CrawlNext ==
    \/ \E seeds \in SeqsUpTo({u \in RawUrls : u[1] = BaseDomain}, MaxSeeds) :
          CrawlStart(seeds)
    \/ \E allowed \in BOOLEAN, response \in FetchResults, saved \in BOOLEAN,
          links \in SeqsUpTo(RawUrls, MaxLinks),
          docs \in SeqsUpTo(RawUrls, MaxDocs) :
          LoopIteration(allowed, response, saved, links, docs, "none")
    \/ CrawlReturn

\* the crawl of pages whose processing may raise: the links are on the base
\* domain, every URL may be fetched
ProcessLinks == {u \in RawUrls : link_type(u) = "internal"}

ProcessNext ==
    \/ \E seeds \in SeqsUpTo({u \in RawUrls : u[1] = BaseDomain}, 1) :
          CrawlStart(seeds)
    \/ \E response \in {"html", "document"}, saved \in BOOLEAN,
          links \in SeqsUpTo(ProcessLinks, MaxLinks),
          docs \in SeqsUpTo(ProcessLinks, MaxDocs), fail \in Failures :
          LoopIteration(TRUE, response, saved, links, docs, fail)
    \/ CrawlReturn

(***************************************************************************)
(* Sequential mode: scrape_test_dataset scrapes one organization after     *)
(* the other with the same scraper object                                  *)
(***************************************************************************)
MaxOrgs == 2   \* organizations with seed URLs

SeqInit == seq = [i |-> 0, leftovers |-> FALSE]

\* scrape_test_dataset lines 428-455: the next organization is scraped.
\* leftovers: the scraper's components held state of the previous crawl
ScrapeNextNgo(seeds) ==
    /\ seq.i < MaxOrgs
    /\ ScrapeTestNgoStart(seeds)
    /\ seq' = [i |-> seq.i + 1,
               leftovers |-> /\ visited # {}
                             /\ seen # {}
                             /\ parsers # << >>
                             /\ loop.html_count > 0]

\* the robots file answers of the sequential runs
SeqRobotsUrls == {u \in RobotsUrls : get_domain(u) = "https://a.org"}
SeqResponses == {r \in Responses : r.kind \in {"200", "RequestException"}}

SeqNext ==
    \/ \E seeds \in SeqsUpTo({u \in RawUrls : u[1] = BaseDomain}, 1) :
          ScrapeNextNgo(seeds)
    \/ \E url \in SeqRobotsUrls, response \in SeqResponses :
          loop.pc = "loop" /\ queue # << >> /\ CanFetch(url, response)
    \/ \E allowed \in BOOLEAN, response \in {"failed", "html"},
          saved \in BOOLEAN, links \in SeqsUpTo(ProcessLinks, 1) :
          LoopIteration(allowed, response, saved, links, << >>, "none")
    \/ CrawlReturn

\* one pass through the body of the "while True" loop of scrape_test_ngo
LoopStep ==
    \E allowed \in BOOLEAN, response \in FetchResults, saved \in BOOLEAN,
       links \in SeqsUpTo(RawUrls, MaxLinks),
       docs \in SeqsUpTo(RawUrls, MaxDocs) :
       LoopIteration(allowed, response, saved, links, docs, "none")

(***************************************************************************)
(* The frontier on its own: add_url, get_next_url and mark_visited called  *)
(* in any order on one URLManager                                          *)
(***************************************************************************)
\* the URLs, depths and priorities the calls are made with
FrontierUrls == RawUrls \cup { <<"example.org", <<"b">>, FALSE>> }
FrontierDepths == {0, max_depth + 1}
\* the priority a URL is added with: tiers high (0), medium (1) and the
\* fallback rank (3)
FrontierPriority(url) ==
    IF url[2] = <<"a">> THEN 0 ELSE IF url[2] = <<"b">> THEN 1 ELSE 3

\* URLManager.add_url
FrontierAdd(url, depth, priority) ==
    /\ loop.pc = "idle"
    /\ queue' = QueueAfterAdd(queue, seen, visited, url, depth, NoUrl,
                              priority)
    /\ seen' = SeenAfterAdd(queue, seen, visited, url, depth)
    /\ offered' = offered \cup {normalize_url(url)}
    /\ lastOp' = AddOp(queue, seen, visited, offered, url, depth, priority)
    /\ UNCHANGED <<visited, loop, fetchAttempts, fetchLog, lastFetch>>
    /\ UNCHANGED <<sessionVars, robotsVars, urlVars, poolVars, seqVars>>

\* URLManager.get_next_url
FrontierNext ==
    /\ loop.pc = "idle"
    /\ lastOp' = NextOp(queue)
    /\ queue' = IF NextIndex(queue) = 0 THEN queue
                ELSE RemoveAt(queue, NextIndex(queue))
    /\ UNCHANGED <<seen, visited, loop, fetchAttempts, fetchLog, offered,
                   lastFetch>>
    /\ UNCHANGED <<sessionVars, robotsVars, urlVars, poolVars, seqVars>>

\* URLManager.mark_visited, called as the loop calls it: with a URL that
\* get_next_url has returned; any spelling of that URL may be passed, and
\* the call may be repeated
FrontierMarkVisited(url) ==
    /\ loop.pc = "idle"
    /\ normalize_url(url) \in seen
    /\ \A i \in 1..Len(queue) : queue[i].url # normalize_url(url)
    /\ visited' = mark_visited(visited, url)
    /\ lastOp' = MarkOp(visited, url)
    /\ UNCHANGED <<queue, seen, loop, fetchAttempts, fetchLog, offered,
                   lastFetch>>
    /\ UNCHANGED <<sessionVars, robotsVars, urlVars, poolVars, seqVars>>

FrontierCalls ==
    \/ \E url \in FrontierUrls, depth \in FrontierDepths :
          FrontierAdd(url, depth, FrontierPriority(url))
    \/ FrontierNext
    \/ \E url \in FrontierUrls : FrontierMarkVisited(url)

(***************************************************************************)
(* URL functions: normalization, priority lookup, internal/external        *)
(***************************************************************************)
MaxParams == 2   \* query parameters of one URL
MaxTiers  == 3   \* tiers of one priority_patterns dictionary

\* a parsed URL.  host: the labels of the host name; port: 0 when the URL
\* names no port; path: the segments; slash: the path ends with "/" (the
\* root path is "/"); query: the parameters in the order written;
\* fragment: None when the URL has none
Url(scheme, host, port, path, slash, query, fragment) ==
    [scheme |-> scheme, host |-> host, port |-> port, path |-> path,
     slash |-> slash, query |-> query, fragment |-> fragment]

\* str.lower on the names that occur
Lower(str) ==
    CASE str = "EXAMPLE" -> "example"
      [] str = "HTTPS"   -> "https"
      [] OTHER           -> str

LowerHost(host) == [i \in 1..Len(host) |-> Lower(host[i])]

DefaultPort(scheme) == IF scheme = "https" THEN 443 ELSE 80

\* order of the query keys
KeyRank(key) == IF key = "a" THEN 1 ELSE 2

Param(key, value) == <<key, value>>

\* a parameter goes behind every parameter whose key is not greater
InsertByKey(sorted, p) ==
    LET before == SelectSeq(sorted, LAMBDA x : KeyRank(x[1]) <= KeyRank(p[1]))
        after  == SelectSeq(sorted, LAMBDA x : KeyRank(x[1]) > KeyRank(p[1]))
    IN  before \o <<p>> \o after

\* query parameters sorted by key, parameters of one key in their original
\* order
RECURSIVE SortByKey(_)
SortByKey(query) ==
    IF query = << >> THEN << >>
    ELSE InsertByKey(SortByKey(SubSeq(query, 1, Len(query) - 1)),
                     query[Len(query)])

\* variant of normalize: the query is left in the order written
normalize_keep_query_order(u) ==
    Url(Lower(u.scheme), LowerHost(u.host),
        IF u.port = DefaultPort(Lower(u.scheme)) THEN 0 ELSE u.port,
        u.path,
        IF u.path = << >> THEN u.slash ELSE FALSE,
        u.query, None)

\* URLManager.normalize_url on a parsed URL: scheme and host in lower case,
\* default port dropped, one trailing slash dropped except on the root
\* path, query sorted by key, fragment dropped
normalize(u) ==
    Url(Lower(u.scheme), LowerHost(u.host),
        IF u.port = DefaultPort(Lower(u.scheme)) THEN 0 ELSE u.port,
        u.path,
        IF u.path = << >> THEN u.slash ELSE FALSE,
        SortByKey(u.query), None)

\* a pattern matches a URL when it occurs in the URL's path
PatternMatches(u, pattern) == \E i \in 1..Len(u.path) : u.path[i] = pattern

TierMatches(u, tier) == \E pattern \in tier : PatternMatches(u, pattern)

\* variant of priority_of: the last matching tier decides
priority_of_last_match(u, tiers) ==
    IF \E i \in 1..Len(tiers) : TierMatches(u, tiers[i])
    THEN (CHOOSE i \in 1..Len(tiers) :
             /\ TierMatches(u, tiers[i])
             /\ \A j \in (i + 1)..Len(tiers) : ~ TierMatches(u, tiers[j])) - 1
    ELSE Len(tiers)

\* URLManager.get_url_priority: tiers are the pattern lists of the
\* priority_patterns dictionary, in its order
priority_of(u, tiers) ==
    IF \E i \in 1..Len(tiers) : TierMatches(u, tiers[i])
    THEN (CHOOSE i \in 1..Len(tiers) :
             /\ TierMatches(u, tiers[i])
             /\ \A j \in 1..(i - 1) : ~ TierMatches(u, tiers[j])) - 1
    ELSE Len(tiers)

\* urlparse(url).netloc.lower(): host and port
_extract_domain(u) == <<LowerHost(u.host), u.port>>

\* str.endswith("." + base) on two host names
EndsWithDot(host, base) ==
    /\ Len(host) > Len(base)
    /\ SubSeq(host, Len(host) - Len(base) + 1, Len(host)) = base

\* ContentExtractor.extract_links: the type tag of a link, for an extractor
\* constructed with base_url
extract_links_type(base_url, u) ==
    LET base_domain == _extract_domain(base_url)
        link_domain == _extract_domain(u)
        is_internal ==
            \/ link_domain = base_domain
            \/ /\ link_domain[2] = base_domain[2]
               /\ EndsWithDot(link_domain[1], base_domain[1])
    IN  IF is_internal THEN "internal" ELSE "external"

\* URLManager.is_internal_url for a manager constructed with the domain
\* base_domain
is_internal_url(base_domain, u) ==
    \/ LowerHost(u.host) = base_domain
    \/ EndsWithDot(LowerHost(u.host), base_domain)

\* the URLs the functions are called with
Queries == SeqsUpTo({Param("a", 1), Param("a", 2), Param("b", 1)}, MaxParams)

NormUrls ==
    { Url("https", host, port, ps[1], ps[2], query, fragment) :
        host \in {<<"example", "org">>, <<"EXAMPLE", "org">>},
        port \in {0, 443, 8080},
        ps \in {<<<< >>, TRUE>>, <<<<"page">>, FALSE>>, <<<<"page">>, TRUE>>},
        query \in Queries,
        fragment \in {None, "top"} }

PathUrls ==
    { Url("https", <<"example", "org">>, 0, path, FALSE, << >>, None) :
        path \in {<< >>, <<"random">>, <<"publikace", "doc">>,
                  <<"news", "article">>, <<"gallery", "photo">>,
                  <<"gallery", "news">>} }

TierLists ==
    SeqsUpTo({{"publikace", "publications"}, {"news", "events"}, {"gallery"},
              {}}, MaxTiers)

HostUrls ==
    { Url("https", host, port, <<"page">>, FALSE, << >>, None) :
        host \in {<<"example", "org">>, <<"EXAMPLE", "org">>,
                  <<"www", "example", "org">>, <<"sub", "example", "org">>,
                  <<"other", "com">>, <<"org">>},
        port \in {0, 443, 8080} }

BaseUrls ==
    { Url("https", host, port, << >>, TRUE, << >>, None) :
        host \in {<<"example", "org">>, <<"www", "example", "org">>},
        port \in {0, 8080} }

UrlCall(fn, url, arg, result) ==
    [fn |-> fn, url |-> url, arg |-> arg, result |-> result]

UrlInit == urlCall = UrlCall("none", None, None, None)

\* manager.normalize_url(url)
NormalizeUrl(u) ==
    /\ urlCall' = UrlCall("normalize_url", u, None, normalize(u))
    /\ UNCHANGED <<sessionVars, robotsVars, crawlVars, poolVars, seqVars>>

\* manager.get_url_priority(url, priority_patterns)
GetUrlPriority(u, tiers) ==
    /\ urlCall' = UrlCall("get_url_priority", u, tiers, priority_of(u, tiers))
    /\ UNCHANGED <<sessionVars, robotsVars, crawlVars, poolVars, seqVars>>

\* ContentExtractor(base_url).extract_links on a page with a link to u
ExtractLinks(base_url, u) ==
    /\ urlCall' = UrlCall("extract_links", u, base_url,
                          extract_links_type(base_url, u))
    /\ UNCHANGED <<sessionVars, robotsVars, crawlVars, poolVars, seqVars>>

\* URLManager(domain).is_internal_url(url), the domain being the host of
\* the base URL
IsInternalUrl(base_url, u) ==
    /\ urlCall' = UrlCall("is_internal_url", u, base_url,
                          is_internal_url(LowerHost(base_url.host), u))
    /\ UNCHANGED <<sessionVars, robotsVars, crawlVars, poolVars, seqVars>>

UrlNext ==
    \/ \E u \in NormUrls : NormalizeUrl(u)
    \/ \E u \in PathUrls, tiers \in TierLists : GetUrlPriority(u, tiers)
    \/ \E base_url \in BaseUrls, u \in HostUrls : ExtractLinks(base_url, u)
    \/ \E base_url \in BaseUrls, u \in HostUrls : IsInternalUrl(base_url, u)

(***************************************************************************)
(* Parallel test scraping: batches of worker processes                     *)
(***************************************************************************)
MaxTasks   == 4   \* organizations with seed URLs
MaxWorkers == 3   \* largest max_workers argument

\* not called
\* results the pipe of the result queue holds before a writer blocks
PipeCapacity == 3

\* what scrape_test_ngo ends with in a worker
WorkerOutcomes == {"stats", "error"}

IdlePool ==
    [pc |-> "idle", n |-> 0, max_workers |-> 1, i |-> 0, k |-> 0,
     proc |-> << >>, puts |-> << >>, pipe |-> << >>, all_stats |-> << >>]

PoolInit == pool = IdlePool

\* batch = tasks[i:i + max_workers]
BatchLen == IF pool.n - pool.i < pool.max_workers THEN pool.n - pool.i
            ELSE pool.max_workers

\* variant of Joined: join returns without waiting for the process
JoinedWithoutWaiting(proc, t) == proc[t] # "new"

\* p.join() returns when the process has exited
Joined(proc, t) == proc[t] = "exited"

\* variant of worker_puts: a crawl that raised leaves no record
worker_puts_stats_only(t, outcome) ==
    IF outcome = "stats" THEN << <<t, "stats">> >> ELSE << >>

\* _scrape_test_ngo_worker lines 658-672: the records the worker of task t
\* puts on results_queue, (ngo_name, stats) at line 666 or
\* (ngo_name, {'error': ...}) at line 672
worker_puts(t, outcome) ==
    IF outcome = "stats" THEN << <<t, "stats">> >> ELSE << <<t, "error">> >>

\* lines 609-614: all_stats after the queue has been read until it is empty
RECURSIVE Collected(_, _)
Collected(all_stats, pipe) ==
    IF pipe = << >> THEN all_stats
    ELSE Collected(Extend(all_stats, Head(pipe)[1], Head(pipe)[2]),
                   Tail(pipe))

\* _run_parallel_test_scraping is called with n tasks
RunParallel(n, max_workers) ==
    /\ pool.pc = "idle"
    /\ pool' = [pc |-> IF n = 0 THEN "collect" ELSE "start",
                n |-> n, max_workers |-> max_workers, i |-> 0, k |-> 0,
                proc |-> [t \in 1..n |-> "new"],
                puts |-> [t \in 1..n |-> << >>],
                pipe |-> << >>, all_stats |-> << >>]
    /\ UNCHANGED <<sessionVars, robotsVars, crawlVars, urlVars, seqVars>>

\* lines 589-596: p.start() for the next task of the batch
StartProcess ==
    /\ pool.pc = "start"
    /\ pool' = [pool EXCEPT
                  !.proc[pool.i + pool.k + 1] = "alive",
                  !.k = IF pool.k + 1 = BatchLen THEN 0 ELSE pool.k + 1,
                  !.pc = IF pool.k + 1 = BatchLen THEN "join" ELSE "start"]
    /\ UNCHANGED <<sessionVars, robotsVars, crawlVars, urlVars, seqVars>>

\* _scrape_test_ngo_worker lines 658-672: the crawl has ended and the worker
\* has called results_queue.put, which hands the record to the queue's
\* feeder thread and returns
WorkerPut(t, outcome) ==
    /\ t \in DOMAIN pool.proc
    /\ pool.proc[t] = "alive"
    /\ outcome \in WorkerOutcomes
    /\ pool' = [pool EXCEPT
                  !.proc[t] = "flushing",
                  !.puts[t] = @ \o worker_puts(t, outcome)]
    /\ UNCHANGED <<sessionVars, robotsVars, crawlVars, urlVars, seqVars>>

\* the process of a worker exits: before it does, the feeder thread of its
\* queue writes the buffered records to the pipe, which blocks while the
\* pipe is full
WorkerExit(t) ==
    /\ t \in DOMAIN pool.proc
    /\ pool.proc[t] = "flushing"
    /\ Len(pool.pipe) + Len(pool.puts[t]) <= PipeCapacity
    /\ pool' = [pool EXCEPT !.proc[t] = "exited",
                            !.pipe = @ \o pool.puts[t]]
    /\ UNCHANGED <<sessionVars, robotsVars, crawlVars, urlVars, seqVars>>

\* lines 599-606: p.join() for the next process of the batch; after the
\* last one, the pause if tasks are left
JoinProcess ==
    /\ pool.pc = "join"
    /\ Joined(pool.proc, pool.i + pool.k + 1)
    /\ pool' = [pool EXCEPT
                  !.k = IF pool.k + 1 = BatchLen THEN 0 ELSE pool.k + 1,
                  !.pc = IF pool.k + 1 < BatchLen THEN "join"
                         ELSE IF pool.i + pool.max_workers < pool.n
                         THEN "sleep" ELSE "collect"]
    /\ UNCHANGED <<sessionVars, robotsVars, crawlVars, urlVars, seqVars>>

\* line 606, then the next round of the for loop at line 582
PauseEnds ==
    /\ pool.pc = "sleep"
    /\ pool' = [pool EXCEPT !.i = pool.i + pool.max_workers, !.pc = "start"]
    /\ UNCHANGED <<sessionVars, robotsVars, crawlVars, urlVars, seqVars>>

\* lines 608-616: the results are collected and returned; the tasks, their
\* processes and all_stats stay as they were at the return
CollectResults ==
    /\ pool.pc = "collect"
    /\ pool' = [pool EXCEPT !.pc = "idle",
                            !.all_stats = Collected(<< >>, pool.pipe),
                            !.pipe = << >>]
    /\ UNCHANGED <<sessionVars, robotsVars, crawlVars, urlVars, seqVars>>

PoolNext ==
    \/ \E n \in 0..MaxTasks, max_workers \in 1..MaxWorkers :
          RunParallel(n, max_workers)
    \/ StartProcess
    \/ \E t \in 1..MaxTasks, outcome \in WorkerOutcomes : WorkerPut(t, outcome)
    \/ \E t \in 1..MaxTasks : WorkerExit(t)
    \/ JoinProcess
    \/ PauseEnds
    \/ CollectResults

(***************************************************************************)
(* Specifications                                                          *)
(***************************************************************************)
Init == SessionInit /\ RobotsInit /\ CrawlInit /\ UrlInit /\ PoolInit
        /\ SeqInit

SessionSpec    == Init /\ [][SessionNext]_vars
StoreSpec      == Init /\ [][StoreNext]_vars
UpdateSpec     == Init /\ [][UpdateNext]_vars
CheckpointSpec == Init /\ [][CheckpointNext]_vars
RobotsSpec     == Init /\ [][RobotsNext]_vars
CrawlSpec      == Init /\ [][CrawlNext]_vars
FrontierSpec   == Init /\ [][FrontierCalls]_vars
\* the loop is straight-line code of one thread: once entered it keeps
\* taking passes until it breaks
SeqSpec        == Init /\ [][SeqNext]_vars
ProcessSpec    == Init /\ [][ProcessNext]_vars
CrawlFairSpec  == Init /\ [][CrawlNext]_vars /\ WF_vars(LoopStep)
UrlSpec        == Init /\ [][UrlNext]_vars
PoolSpec       == Init /\ [][PoolNext]_vars

(***************************************************************************)
(* Properties                                                              *)
(***************************************************************************)
AllowedTransitions ==
    { <<IN_PROGRESS, COMPLETED>>, <<IN_PROGRESS, FAILED>>,
      <<IN_PROGRESS, INTERRUPTED>>, <<INTERRUPTED, IN_PROGRESS>>,
      <<FAILED, IN_PROGRESS>> }

\* C1: a new session row has status IN_PROGRESS, and every step of the run
\* script or the menu that changes the status of a session changes it along
\* one of the allowed transitions (so COMPLETED is never left).
C1_AllowedTransitionsOnly ==
    [][\A sid \in DOMAIN sessions' :
          IF sid \in DOMAIN sessions
          THEN sessions'[sid].status # sessions[sid].status =>
                 <<sessions[sid].status, sessions'[sid].status>>
                    \in AllowedTransitions
          ELSE sessions'[sid].status = IN_PROGRESS]_vars

JobInterrupted == run.outcome = KeyboardInterrupt \/ menu.sigint
JobOver ==
    \/ run.parent = "shell" /\ run.pc = "done"
    \/ menu.pc = "returned"
InterruptedWrites ==
    {i \in 1..Len(statusWrites) : statusWrites[i].status = INTERRUPTED}

\* C3: when an interrupted job is over, INTERRUPTED was written exactly once
\* and no later write of the job changed the status (the last write is the
\* INTERRUPTED one), for a direct run as well as for a run under the menu.
C3_InterruptedWrittenOnce ==
    (JobOver /\ JobInterrupted) =>
        /\ Cardinality(InterruptedWrites) = 1
        /\ statusWrites[Len(statusWrites)].status = INTERRUPTED

\* C4: in one organization's crawl no normalized URL is fetched twice, no
\* fetch is issued for a URL that is marked visited, and every URL that was
\* fetched (with or without success) is marked visited.
C4_FetchedAtMostOnce ==
    /\ \A u \in NormalizedUrls : fetchAttempts[u] <= 1
    /\ fetchLog = {}
    /\ \A u \in NormalizedUrls : fetchAttempts[u] >= 1 => u \in visited

\* C4 witness: the crawl has ended after fetching two URLs, each once
C4_Witness ==
    /\ loop.pc = "done"
    /\ Cardinality({u \in NormalizedUrls : fetchAttempts[u] = 1}) >= 2
    /\ Cardinality(visited) >= 2

\* C5: a can_fetch call downloads the robots file exactly when the domain has
\* no cached entry (first call) or the entry's age exceeds cache_duration;
\* a call made while the age is within cache_duration downloads nothing.
C5_FetchOnlyWhenMissingOrExpired ==
    lastQuery.op = "can_fetch" =>
        (lastQuery.fetched <=>
            (lastQuery.age_before = << >>
             \/ lastQuery.age_before[1] > cache_duration))

\* C5 witness: a can_fetch call found an expired entry and downloaded the
\* robots file again
C5_Witness ==
    /\ lastQuery.op = "can_fetch"
    /\ lastQuery.age_before # << >>
    /\ lastQuery.age_before[1] > cache_duration
    /\ lastQuery.fetched
    /\ lastQuery.age = 0

\* C6: no query (can_fetch, crawl_delay, request_rate) is answered from a
\* rule set that is older than cache_duration at the time of the query.
C6_NoAnswerFromStaleEntry ==
    lastQuery.op \in {"can_fetch", "get_crawl_delay", "get_request_rate"} =>
        lastQuery.age <= cache_duration

FailedKinds == {"404", "500", "RequestException", "Exception"}

C8_CheckpointFailureNotRaised ==
    (lastCall.op = "save_checkpoint" /\ lastCall.failed) => ~ lastCall.raised

\* C9: get_latest_checkpoint(s) returns none when s has no checkpoint, and
\* otherwise a checkpoint of s whose time is the latest among the
\* checkpoints of s.
C9_LatestCheckpointIsNewest ==
    \A sid \in SessionIds :
        /\ CheckpointsOf(sid) = {} <=> get_latest_checkpoint(sid) = {}
        /\ \A i \in get_latest_checkpoint(sid) :
              /\ checkpoints[i].session_id = sid
              /\ \A j \in CheckpointsOf(sid) :
                    fromisoformat(checkpoints[j].timestamp)
                        <= fromisoformat(checkpoints[i].timestamp)

\* C9 witness: a session has two checkpoints saved at different times and
\* get_latest_checkpoint returns the later one only
C9_Witness ==
    \E i, j \in 1..Len(checkpoints) :
        /\ checkpoints[i].session_id = checkpoints[j].session_id
        /\ checkpoints[i].timestamp # checkpoints[j].timestamp
        /\ get_latest_checkpoint(checkpoints[i].session_id) = {j}
        /\ i < j

Resumable ==
    {sid \in DOMAIN sessions :
        sessions[sid].status \in {IN_PROGRESS, INTERRUPTED}}

\* C10: get_resumable_sessions returns exactly the IN_PROGRESS and
\* INTERRUPTED sessions, as one list ordered by start_time from the most
\* recent to the oldest (its first element is the most recent one).
C10_ResumableMostRecentFirst ==
    \A r \in get_resumable_sessions :
        /\ {r[i] : i \in 1..Len(r)} = Resumable
        /\ \A i \in 1..(Len(r) - 1) :
              fromisoformat(sessions[r[i + 1]].start_time)
                  <= fromisoformat(sessions[r[i]].start_time)

\* C11: in every reachable state, delete_session for an existing session s
\* leaves get_session(s) without a row and no checkpoint row of s, and
\* changes no other session row and no checkpoint of another session.
C11_DeleteRemovesOnlyThatSession ==
    \A s \in DOMAIN sessions, f \in BOOLEAN :
        LET after == delete_session(sessions, checkpoints, output_dirs, s, f)
        IN  /\ get_session(after.sessions, s) = << >>
            /\ \A i \in 1..Len(after.checkpoints) :
                  after.checkpoints[i].session_id # s
            /\ \A o \in DOMAIN sessions \ {s} :
                  get_session(after.sessions, o) = get_session(sessions, o)
            /\ SelectSeq(after.checkpoints, LAMBDA c : c.session_id # s)
                  = SelectSeq(checkpoints, LAMBDA c : c.session_id # s)

\* C11 witness: a session with a checkpoint was deleted while the checkpoint
\* of another, existing session is still in the table
C11_Witness ==
    /\ lastCall.op = "delete_session"
    /\ lastCall.found
    /\ Len(checkpoints) >= 1
    /\ next_checkpoint_id - 1 > Len(checkpoints)
    /\ \A i \in 1..Len(checkpoints) :
          checkpoints[i].session_id \in DOMAIN sessions

\* C12: in every reachable state, delete_session for an id without a
\* session row does not raise and changes neither table nor any output
\* directory, whatever delete_files is.
C12_DeleteUnknownIsNoOp ==
    \A s \in SessionIds \ DOMAIN sessions, f \in BOOLEAN :
        LET after == delete_session(sessions, checkpoints, output_dirs, s, f)
        IN  /\ ~ after.raised
            /\ after.sessions = sessions
            /\ after.checkpoints = checkpoints
            /\ after.output_dirs = output_dirs

\* C12 witness: delete_session with delete_files set found no row, while the
\* tables hold rows and a directory without a session row exists
C12_Witness ==
    /\ lastCall.op = "delete_session"
    /\ ~ lastCall.found
    /\ lastCall.delete_files
    /\ output_dirs \ DOMAIN sessions # {}
    /\ DOMAIN sessions # {}
    /\ checkpoints # << >>

\* C13: in every reachable state, update_session_status stamps end_time
\* for COMPLETED and FAILED, leaves it alone for IN_PROGRESS and
\* INTERRUPTED, stamps updated_at on every call, and get_session then
\* returns the new status and end_time.
C13_EndTimeAndUpdatedAt ==
    \A s \in DOMAIN sessions, st \in SessionStatus,
       stats \in UpdateStatsArgs :
        LET after == update_session_status(sessions, s, st, stats, wallclock)
            old   == sessions[s]
        IN  /\ get_session(after, s) # << >>
            /\ LET new == get_session(after, s)[1]
               IN  /\ new.status = st
                   /\ st \in {COMPLETED, FAILED} =>
                         new.end_time = isoformat(wallclock)
                   /\ st \in {IN_PROGRESS, INTERRUPTED} =>
                         new.end_time = old.end_time
                   /\ new.updated_at = isoformat(wallclock)

\* C13 witness: a session that was ended and later set IN_PROGRESS or
\* INTERRUPTED again keeps its end_time while updated_at has moved on
C13_Witness ==
    /\ lastCall.op = "update_session_status"
    /\ \E s \in DOMAIN sessions :
          /\ sessions[s].status \in {IN_PROGRESS, INTERRUPTED}
          /\ sessions[s].end_time # NULL
          /\ sessions[s].updated_at # sessions[s].end_time

Counters == {"total_pages_scraped", "total_pages_skipped", "total_errors"}

\* C14: in every reachable state, update_session_status sets every counter
\* named in stats to the passed value, leaves the other counters (all of
\* them without stats) unchanged, and changes no other session's row.
C14_StatsOverwriteNamedCounters ==
    \A s \in DOMAIN sessions, st \in SessionStatus,
       stats \in UpdateStatsArgs :
        LET after == update_session_status(sessions, s, st, stats, wallclock)
        IN  /\ \A k \in Counters :
                  after[s][k] = IF k \in DOMAIN stats THEN stats[k]
                                ELSE sessions[s][k]
            /\ \A o \in DOMAIN sessions \ {s} : after[o] = sessions[o]
            /\ DOMAIN after = DOMAIN sessions

\* C14 witness: a session whose scraped counter was set and then overwritten
\* with 0 while its skipped counter kept the value set before
C14_Witness ==
    /\ lastCall.op = "update_session_status"
    /\ \E s \in DOMAIN sessions :
          /\ sessions[s].total_pages_scraped = 0
          /\ sessions[s].total_errors = MaxStat
          /\ sessions[s].total_pages_skipped = MaxStat

\* C15: no two session rows share a session_id or an output_dir, and a
\* create_session call that succeeds returns an id that no earlier call has
\* returned (same organization in the same second and organization names
\* that are cleaned to the same text included).
C15_SessionIdsNeverRepeat ==
    /\ [](\A a, b \in DOMAIN sessions :
            a # b => sessions[a].output_dir # sessions[b].output_dir)
    /\ [][\A sid \in DOMAIN sessions' \ DOMAIN sessions :
              sid \notin created_ids]_vars

\* C16: every checkpoint row's session_id is the id of an existing session
\* row, whatever the order of the create, save_checkpoint and delete calls.
C16_CheckpointsReferenceSessions ==
    \A i \in 1..Len(checkpoints) :
        checkpoints[i].session_id \in DOMAIN sessions

\* C17 as stated: add_url returns true exactly for the first offer of a
\* normalized URL and false for every later one.
C17_TrueOnFirstOfferOnly ==
    lastOp.op = "add" => (lastOp.result <=> lastOp.first)

\* C17, amended: a first offer is accepted when the depth is within
\* max_depth and fewer than max_pages URLs have been accepted; once a
\* normalized URL has been accepted every further add of it is rejected,
\* whether it is queued, popped or visited; a rejected add changes neither
\* the queue nor the seen set.
C17_AcceptedAtMostOnce ==
    /\ (lastOp.op = "add" /\ lastOp.result) => lastOp.url \in seen
    /\ \A url \in FrontierUrls, depth \in FrontierDepths :
          /\ (normalize_url(url) \notin offered /\ depth <= max_depth
                 /\ Cardinality(seen) < max_pages)
                => add_accepts(queue, seen, visited, url, depth)
          /\ normalize_url(url) \in seen
                => ~ add_accepts(queue, seen, visited, url, depth)
          /\ ~ add_accepts(queue, seen, visited, url, depth)
                => /\ QueueAfterAdd(queue, seen, visited, url, depth, NoUrl,
                                    FrontierPriority(url)) = queue
                   /\ SeenAfterAdd(queue, seen, visited, url, depth) = seen

\* C17 witness: an add within the depth limit and the page budget was
\* rejected because its URL, accepted and popped earlier, is visited
C17_Witness ==
    /\ lastOp.op = "add"
    /\ ~ lastOp.result
    /\ ~ lastOp.first
    /\ lastOp.depth <= max_depth
    /\ Cardinality(seen) < max_pages
    /\ lastOp.url \in visited
    /\ \A i \in 1..Len(queue) : queue[i].url # lastOp.url

\* C18: add_url rejects every depth above max_depth and rejects no depth up
\* to max_depth for the depth alone, so no entry that is queued or was
\* popped in a crawl has a depth above max_depth.
C18_DepthLimit ==
    /\ \A url \in RawUrls, depth \in 0..(max_depth + 1) :
          /\ depth > max_depth
                => ~ add_accepts(queue, seen, visited, url, depth)
          /\ (depth <= max_depth /\ normalize_url(url) \notin seen
                 /\ normalize_url(url) \notin visited
                 /\ Cardinality(seen) < max_pages)
                => add_accepts(queue, seen, visited, url, depth)
    /\ \A i \in 1..Len(queue) : queue[i].depth <= max_depth
    /\ lastOp.op = "next" => lastOp.depth <= max_depth
    /\ (lastOp.op = "add" /\ lastOp.result) => lastOp.depth <= max_depth

\* C18 witness: in a crawl, a link found on a page at depth max_depth was
\* offered for the first time, at depth max_depth + 1, and rejected although
\* the page budget is not used up; it is neither seen nor queued
C18_Witness ==
    /\ loop.pc = "loop"
    /\ lastOp.op = "add"
    /\ lastOp.depth = max_depth + 1
    /\ lastOp.first
    /\ ~ lastOp.result
    /\ Cardinality(seen) < max_pages
    /\ lastOp.url \notin seen
    /\ \A i \in 1..Len(queue) : queue[i].url # lastOp.url

\* C19: never more than max_pages URLs are accepted; once max_pages URLs
\* have been accepted every add is rejected, and the entries still queued
\* are still returned by get_next_url.
C19_PageBudget ==
    /\ Cardinality(seen) <= max_pages
    /\ Cardinality(seen) >= max_pages =>
          /\ \A url \in FrontierUrls, depth \in FrontierDepths :
                ~ add_accepts(queue, seen, visited, url, depth)
          /\ queue # << >> => NextOp(queue).result
    /\ (lastOp.op = "add" /\ lastOp.result) => lastOp.url \in seen

\* C19 witness: after max_pages URLs were accepted, a new URL offered within
\* the depth limit was rejected while entries are still queued
C19_Witness ==
    /\ Cardinality(seen) = max_pages
    /\ lastOp.op = "add"
    /\ lastOp.first
    /\ lastOp.depth <= max_depth
    /\ ~ lastOp.result
    /\ queue # << >>

\* C20: get_next_url returns an entry of the smallest priority value among
\* the queued entries, the earliest added one of that priority, and returns
\* nothing exactly when no entry is queued.
C20_NextIsBestPriorityFifo ==
    /\ NextIndex(queue) = 0 <=> queue = << >>
    /\ NextOp(queue).result <=> queue # << >>
    /\ queue # << >> =>
          LET i == NextIndex(queue) IN
          /\ i \in 1..Len(queue)
          /\ NextOp(queue).url = queue[i].url
          /\ \A j \in 1..Len(queue) : queue[i].priority <= queue[j].priority
          /\ \A j \in 1..Len(queue) :
                queue[j].priority = queue[i].priority => i <= j
    /\ (lastOp.op = "next" /\ lastOp.result) =>
          \A j \in 1..Len(queue) : lastOp.priority <= queue[j].priority
    /\ (lastOp.op = "next" /\ ~ lastOp.result) => queue = << >>

\* C20 witness: get_next_url returned an entry of a better priority than
\* the two entries of one tier that were queued before it and still are
C20_Witness ==
    /\ lastOp.op = "next"
    /\ lastOp.result
    /\ Len(queue) >= 2
    /\ queue[1].priority = queue[2].priority
    /\ lastOp.priority < queue[1].priority
    /\ lastOp.url \in offered

\* C21: mark_visited is idempotent: a second call for a URL of the same
\* normalized form leaves the visited set as the first call left it; after
\* mark_visited(u), is_visited is true and add_url returns false for every
\* URL of the same normalized form, and since no call removes a URL from the
\* visited set this stays so for the rest of the run.
C21_MarkVisitedIdempotentAndPermanent ==
    /\ [](\A u \in FrontierUrls, v \in FrontierUrls :
            normalize_url(u) = normalize_url(v) =>
              /\ mark_visited(mark_visited(visited, u), v)
                    = mark_visited(visited, u)
              /\ normalize_url(v) \in mark_visited(visited, u)
              /\ \A depth \in FrontierDepths :
                    ~ add_accepts(queue, seen, mark_visited(visited, u), v,
                                  depth))
    /\ [](\A v \in FrontierUrls :
            is_visited(v) =>
              \A depth \in FrontierDepths :
                 ~ add_accepts(queue, seen, visited, v, depth))
    /\ [](lastOp.op = "mark" => lastOp.url \in visited)
    /\ [][visited \subseteq visited']_vars

\* C21 witness: mark_visited was called again for a URL that is visited,
\* while another spelling of it is among the URLs that can be added
C21_Witness ==
    /\ lastOp.op = "mark"
    /\ ~ lastOp.first
    /\ lastOp.url \in visited
    /\ \E v \in FrontierUrls : v # lastOp.url /\ normalize_url(v) = lastOp.url

\* C22: get_url_priority returns the zero-based position of the first
\* tier, in the order the caller gave the tiers, that has a pattern matching
\* the URL, and the number of tiers when no tier matches: 0, 1, 2 for high,
\* medium, low and 3 for an unmatched URL when three tiers are given.
C22_PriorityIsFirstMatchingTier ==
    urlCall.fn = "get_url_priority" =>
      LET u == urlCall.url
          tiers == urlCall.arg
          rank == urlCall.result
          matching == {i \in 1..Len(tiers) : TierMatches(u, tiers[i])}
      IN  /\ rank \in 0..Len(tiers)
          /\ matching = {} <=> rank = Len(tiers)
          /\ matching # {} =>
                /\ rank + 1 \in matching
                /\ \A i \in matching : rank + 1 <= i
          /\ tiers = <<{"publikace", "publications"}, {"news", "events"},
                       {"gallery"}>> =>
                /\ u.path = <<"publikace", "doc">> => rank = 0
                /\ u.path = <<"news", "article">> => rank = 1
                /\ u.path = <<"gallery", "photo">> => rank = 2
                /\ u.path = <<"random">> => rank = 3

\* C22 witness: a URL that matches the second and the third of three tiers
\* got rank 1
C22_Witness ==
    /\ urlCall.fn = "get_url_priority"
    /\ Len(urlCall.arg) = 3
    /\ ~ TierMatches(urlCall.url, urlCall.arg[1])
    /\ TierMatches(urlCall.url, urlCall.arg[2])
    /\ TierMatches(urlCall.url, urlCall.arg[3])
    /\ urlCall.result = 1

\* two URLs that differ only by one trailing slash on the path
DiffersOnlyBySlash(u, v) ==
    u # v /\ [v EXCEPT !.slash = u.slash] = u

IsPermutation(q1, q2) ==
    /\ Len(q1) = Len(q2)
    /\ \E f \in [1..Len(q1) -> 1..Len(q1)] :
          /\ \A i, j \in 1..Len(q1) : f[i] = f[j] => i = j
          /\ \A i \in 1..Len(q1) : q2[i] = q1[f[i]]

\* two URLs that differ only by the order of their query parameters
DiffersOnlyByQueryOrder(u, v) ==
    /\ u # v
    /\ [v EXCEPT !.query = u.query] = u
    /\ IsPermutation(u.query, v.query)

DistinctKeys(query) ==
    \A i, j \in 1..Len(query) : query[i][1] = query[j][1] => i = j

HostRule(base_url, u) ==
    \/ LowerHost(u.host) = LowerHost(base_url.host)
    \/ EndsWithDot(LowerHost(u.host), LowerHost(base_url.host))

\* C24: a URL is classified internal if and only if its host equals the
\* base domain or ends with "." followed by the base domain; is_internal_url
\* and the type tag of extract_links agree with this rule for every URL and
\* every base URL, a base URL with a www. prefix or a port included.
C24_InternalIffHostRule ==
    /\ urlCall.fn = "extract_links" =>
          (urlCall.result = "internal" <=> HostRule(urlCall.arg, urlCall.url))
    /\ urlCall.fn = "is_internal_url" =>
          (urlCall.result <=> HostRule(urlCall.arg, urlCall.url))

\* C25: when the fetch of a popped URL fails, the URL is marked visited and
\* the loop goes on with the next frontier entry; the URL has been attempted
\* once, is no longer queued, and no URL is attempted a second time in the
\* run.
C25_FailedFetchIsVisitedAndNotRetried ==
    /\ \A u \in RawUrls :
          normalize_url(u) \in VisitedAfterFetch(visited, u, "failed")
    /\ (lastFetch.requested /\ lastFetch.result = "failed") =>
          /\ lastFetch.url \in visited
          /\ fetchAttempts[lastFetch.url] = 1
          /\ \A i \in 1..Len(queue) : queue[i].url # lastFetch.url
          /\ ~ add_accepts(queue, seen, visited, lastFetch.url, 0)
          /\ (lastOp.op = "next" /\ lastOp.url = lastFetch.url)
                => loop.pc = "loop"
    /\ \A u \in NormalizedUrls : fetchAttempts[u] <= 1

\* C25 witness: the request for the URL popped last has failed; the URL is
\* visited and the loop is about to pop the next of the queued entries
C25_Witness ==
    /\ lastFetch.requested
    /\ lastFetch.result = "failed"
    /\ lastOp.op = "next" /\ lastOp.url = lastFetch.url
    /\ lastFetch.url \in visited
    /\ loop.pc = "loop"
    /\ queue # << >>

C27_NoExternalUrlInFrontier ==
    /\ \A i \in 1..Len(queue) : link_type(queue[i].url) = "internal"
    /\ \A u \in seen : link_type(u) = "internal"

\* C29: when a run ends with an unhandled error the session is set to
\* FAILED and the error is recorded in the session's notes or counters, so
\* that get_session shows it after the run.
C29_FailureIsRecorded ==
    (run.pc = "done" /\ run.outcome = Exception) =>
      /\ get_session(sessions, run.session_id) # << >>
      /\ LET row == get_session(sessions, run.session_id)[1] IN
          /\ row.status = FAILED
          /\ \/ row.notes # CreationNotes
             \/ row.total_errors >= 1

Alive == {t \in DOMAIN pool.proc : pool.proc[t] \in {"alive", "flushing"}}

BatchOf(t) == (t - 1) \div pool.max_workers

\* C28: during a parallel run at most max_workers worker processes are
\* alive at any time, and a worker of a later batch is started only after
\* every worker of the earlier batches has exited.
C28_AtMostMaxWorkersAlive ==
    /\ Cardinality(Alive) <= pool.max_workers
    /\ \A t, u \in DOMAIN pool.proc :
          (BatchOf(t) < BatchOf(u) /\ pool.proc[u] # "new")
            => pool.proc[t] = "exited"

\* C28 witness: with more tasks than two workers, both workers of the
\* second batch are alive
C28_Witness ==
    /\ pool.max_workers = 2
    /\ pool.n > pool.max_workers
    /\ Cardinality(Alive) = 2
    /\ \A t \in Alive : BatchOf(t) = 1

\* the fetch attempts of the run so far
RECURSIVE SumOver(_, _)
SumOver(f, S) ==
    IF S = {} THEN 0
    ELSE LET x == CHOOSE x \in S : TRUE IN f[x] + SumOver(f, S \ {x})

TotalAttempts == SumOver(fetchAttempts, NormalizedUrls)

\* C30: whatever links the pages carry (cycles included) and whatever the
\* fetches return, the fetch-process loop of one organization ends: it makes
\* at most max_pages fetch attempts, and when it has ended either the
\* frontier is exhausted or both the HTML cap and the document cap are
\* reached.
C30_LoopTerminates ==
    /\ [](TotalAttempts <= max_pages)
    /\ [](loop.pc = "done" =>
             \/ NextIndex(queue) = 0
             \/ (loop.html_count >= max_html_pages
                  /\ loop.pdf_count >= max_pdfs))
    /\ (loop.pc = "loop" ~> loop.pc = "done")

\* C30 witness: the loop has ended with the frontier exhausted and the caps
\* not reached, after max_pages fetch attempts: the page budget is used up
\* and every accepted URL is visited
C30_Witness ==
    /\ loop.pc = "done"
    /\ NextIndex(queue) = 0
    /\ ~ (loop.html_count >= max_html_pages /\ loop.pdf_count >= max_pdfs)
    /\ TotalAttempts = max_pages
    /\ Cardinality(seen) = max_pages
    /\ seen = visited

\* C31: in a test-dataset crawl the number of saved HTML pages never exceeds
\* max_html_pages and the number of saved documents never exceeds max_pdfs;
\* within a run a counter changes only by growing by one, in a pass that
\* fetched one URL and in which the store reported the item saved, and the
\* two counters never grow in the same pass.
C31_SavedCountsWithinCaps ==
    /\ [](loop.html_count \in 0..max_html_pages)
    /\ [](loop.pdf_count \in 0..max_pdfs)
    /\ [][loop.pc = "loop" =>
            /\ loop'.html_count # loop.html_count =>
                  /\ loop'.html_count = loop.html_count + 1
                  /\ loop'.pdf_count = loop.pdf_count
                  /\ TotalAttempts' = TotalAttempts + 1
                  /\ lastFetch'.result = "html"
                  /\ lastFetch'.saved
            /\ loop'.pdf_count # loop.pdf_count =>
                  /\ loop'.pdf_count = loop.pdf_count + 1
                  /\ loop'.html_count = loop.html_count
                  /\ TotalAttempts' = TotalAttempts + 1
                  /\ lastFetch'.result = "document"
                  /\ lastFetch'.saved
            /\ (TotalAttempts' = TotalAttempts + 1 /\ ~ lastFetch'.saved) =>
                  /\ loop'.html_count = loop.html_count
                  /\ loop'.pdf_count = loop.pdf_count]_vars

\* C31 witness: the HTML cap is reached and a further HTML page has been
\* fetched and not saved
C31_Witness ==
    /\ loop.pc = "loop"
    /\ loop.html_count = max_html_pages
    /\ lastFetch.result = "html"
    /\ ~ lastFetch.saved
    /\ Cardinality({u \in NormalizedUrls : fetchAttempts[u] = 1})
          > max_html_pages

\* C32: no URL matching an exclusion pattern is added to the frontier by
\* page processing, whether found as an ordinary link or as a document link:
\* every queued entry that has a parent page does not match.
C32_NoExcludedUrlFromPages ==
    \A i \in 1..Len(queue) :
        queue[i].parent_url # NoUrl => ~ should_exclude_url(queue[i].url)

\* the loop is not left by a processing failure: it ends on one of its two
\* exits only
LoopNotAborted ==
    loop.pc = "done" =>
          \/ NextIndex(queue) = 0
          \/ (loop.html_count >= max_html_pages
               /\ loop.pdf_count >= max_pdfs)

\* C33: a failure while processing one fetched URL never aborts the loop: it
\* is caught, counted as an error in the run's counters, and the loop goes on
\* with the next frontier entry.
C33_FailureCaughtAndCounted ==
    /\ LoopNotAborted
    /\ loop.errors = loop.raised

\* C34: when a domain has a cached rule set and the re-fetch of its robots
\* file fails, the cached rule set is kept and goes on deciding can_fetch: a
\* URL disallowed before the failed refresh is still disallowed after it.
C34_FailedRefreshKeepsCachedRules ==
    \A url \in RobotsUrls :
        LET domain == get_domain(url) IN
        (domain \in DOMAIN parsers /\ needs_fetch(domain)) =>
            \A response \in {r \in Responses :
                                r.kind \in {"RequestException", "Exception"}} :
                /\ ParsersAfter(domain, response)[domain] = parsers[domain]
                /\ ~ parser_can_fetch(parsers[domain], url) =>
                      ~ parser_can_fetch(ParsersAfter(domain, response)[domain],
                                         url)

\* C35: every worker puts exactly one result on the result queue, its
\* statistics or an error record, and when _run_parallel_test_scraping has
\* returned the collected map has one entry for every task that was started,
\* the record its worker put.
C35_OneResultPerWorker ==
    /\ \A t \in DOMAIN pool.proc :
          /\ pool.proc[t] \in {"new", "alive"} => pool.puts[t] = << >>
          /\ pool.proc[t] \in {"flushing", "exited"} =>
                /\ Len(pool.puts[t]) = 1
                /\ pool.puts[t][1][1] = t
                /\ pool.puts[t][1][2] \in WorkerOutcomes
    /\ pool.pc = "idle" =>
          /\ DOMAIN pool.all_stats =
                 {t \in DOMAIN pool.proc : pool.proc[t] # "new"}
          /\ DOMAIN pool.all_stats = 1..pool.n
          /\ \A t \in DOMAIN pool.all_stats :
                 pool.all_stats[t] = pool.puts[t][1][2]

\* C35 witness: a run of three tasks in two batches has returned; one crawl
\* raised and one returned its statistics
C35_Witness ==
    /\ pool.pc = "idle"
    /\ pool.n = 3
    /\ pool.max_workers = 2
    /\ DOMAIN pool.all_stats = 1..3
    /\ pool.all_stats[1] = "error"
    /\ pool.all_stats[3] = "stats"

\* the process the coordinator is joining
JoinTarget == pool.i + pool.k + 1

\* C36: the parallel coordinator always finishes: no state is reachable where
\* the coordinator waits in join for a worker that cannot exit because the
\* result it has put cannot be written to the full pipe, which is drained
\* only after all batches have been joined.
C36_NoJoinOnBlockedWorker ==
    ~ (/\ pool.pc = "join"
       /\ pool.proc[JoinTarget] = "flushing"
       /\ Len(pool.pipe) + Len(pool.puts[JoinTarget]) > PipeCapacity)

\* scrape_test_ngo has just been entered: no fetch and no robots query has
\* been made in this crawl
JustStarted ==
    /\ loop.pc = "loop"
    /\ lastFetch = NoFetch
    /\ lastQuery = NoQuery

\* the frontier a scraper that has never crawled holds after the seeds
SeededFrontier(seeds) ==
    AddAll([queue |-> << >>, seen |-> {}, offered |-> {}, last |-> NoOp],
           {}, SeedOffers(seeds))

\* C37: each organization's crawl starts with its own empty frontier, empty
\* visited set, empty robots cache and zeroed counters: whatever an earlier
\* crawl of the same scraper left behind, the components a crawl gets are
\* the empty ones, and when it is entered its frontier holds exactly what
\* its own seeds give a new scraper.
C37_CrawlStartsFresh ==
    /\ _initialize_for_ngo(
           Components(queue, seen, visited, parsers, last_fetch))
          = Components(<< >>, {}, {}, << >>, << >>)
    /\ JustStarted =>
          /\ visited = {}
          /\ parsers = << >> /\ last_fetch = << >>
          /\ loop.html_count = 0 /\ loop.pdf_count = 0
          /\ \E seeds \in SeqsUpTo({u \in RawUrls : u[1] = BaseDomain},
                                   MaxSeeds) :
                /\ queue = SeededFrontier(seeds).queue
                /\ seen = SeededFrontier(seeds).seen

\* C37 witness: the second organization's crawl has just been entered, and
\* the crawl before it left seen and visited URLs, a cached robots file and
\* a saved page
C37_Witness ==
    /\ JustStarted
    /\ seq.i = 2
    /\ seq.leftovers

\* get_session_summary lines 398-406: the duration line of the summary
summary_duration(row) ==
    IF row.end_time # NULL THEN "elapsed" ELSE "In progress"

\* C38: a session has an end_time if and only if its status is COMPLETED or
\* FAILED; a session that is IN_PROGRESS or INTERRUPTED, also one resumed
\* after an earlier COMPLETED or FAILED, has none and its summary reports
\* the duration as in progress.
C38_EndTimeIffFinished ==
    \A sid \in DOMAIN sessions :
        /\ sessions[sid].end_time # NULL
              <=> sessions[sid].status \in {COMPLETED, FAILED}
        /\ sessions[sid].status \in {IN_PROGRESS, INTERRUPTED}
              => summary_duration(sessions[sid]) = "In progress"

\* C39: in a test-dataset crawl, once max_html_pages HTML pages are saved no
\* URL is added to the frontier any more: a pass of the loop accepts no URL
\* and never makes the queue longer, and a pass that fetches a URL marks it
\* visited and leaves the queue one entry shorter.
C39_NoAddsAfterHtmlCap ==
    [][(loop.pc = "loop" /\ loop.html_count >= max_html_pages) =>
          /\ seen' = seen
          /\ Len(queue') <= Len(queue)
          /\ \A i \in 1..Len(queue') : \E j \in 1..Len(queue) :
                 queue'[i] = queue[j]
          /\ TotalAttempts' = TotalAttempts + 1 =>
                 /\ lastFetch'.url \in visited'
                 /\ Len(queue') = Len(queue) - 1
                 /\ lastOp'.op = "next"]_vars

\* C39 witness: with the HTML cap reached and the document cap not, an HTML
\* page was fetched; it is visited and no add followed its fetch
C39_Witness ==
    /\ loop.pc = "loop"
    /\ loop.html_count = max_html_pages
    /\ loop.pdf_count < max_pdfs
    /\ lastFetch.result = "html"
    /\ ~ lastFetch.saved
    /\ lastFetch.url \in visited
    /\ lastOp.op = "next"
    /\ lastOp.url = lastFetch.url

====
